---- MODULE Spec2Model ----
(***************************************************************************)
(* ModelGenerator (tools/sapp/sapp/model_generator.py): the pipeline step  *)
(* that turns raw issues and pools of raw trace fragments into a trace     *)
(* graph.  run() is modelled as a sequential state machine with an         *)
(* explicit call stack; one action per loop iteration or call.             *)
(*                                                                         *)
(* Texts (callable names, filenames, leaf names, ports) are sequences of   *)
(* one-character strings, so that slicing and prefix tests are computed.   *)
(***************************************************************************)
EXTENDS Integers, Sequences, FiniteSets, Bags, TLC

VARIABLES
  issue_sel,            \* input["issues"]: indices into IssueU, in input order
  store_unused_models,  \* summary.get("store_unused_models") as read at line 71:
                        \* None before, Some(flag) after
  pool_sel,             \* the fragments of input["preconditions"] and
                        \* input["postconditions"] at the call: indices into FragU
  trace_entries,        \* summary["trace_entries"]: kind -> (key -> fragments)
  graph,                \* self.graph (TraceGraph)
  next_id,              \* the DBID counter
  visited_frames,       \* self.visited_frames: frame local id -> leaf ids
  missing_traces,       \* summary["missing_traces"]: kind -> set of keys
  big_tito,             \* summary["big_tito"]
  run,                  \* summary["run"]
  pc,                   \* position of run(): "start", "issues", "returned",
                        \* "raised" (TypeError), "failed" (KeyError)
  idx,                  \* position of the loop over input["issues"]
  stack,                \* call stack below run(), top last
  made,                 \* history: every TraceFrame created, with its raw origin
  pop_log,              \* history: the pops of trace_entries[kind]
  lookup_log,           \* history: the calls of _get_or_populate_trace_frames
  interned,             \* history: the calls of _get_shared_text with their results
  prior,                \* the result of an earlier run() on the same issues in
                        \* another order, None if there was none
  parked                \* issues processed in parallel: the position (idx, stack)
                        \* of the worker that is not taking the next step; None
                        \* when run() is the one thread of the code

vars == <<issue_sel, store_unused_models, pool_sel, trace_entries, graph, next_id,
          visited_frames, missing_traces, big_tito, run, pc, idx, stack, made,
          pop_log, lookup_log, interned, prior, parked>>

(***************************************************************************)
(* Bounds of the model and constants of the program.                       *)
(***************************************************************************)
MaxIssues == 2
MaxPool == 2
SHARED_TEXT_LENGTH == 4096
MaxTitos == 200

PRECONDITION == "precondition"
POSTCONDITION == "postcondition"
TraceKind == {PRECONDITION, POSTCONDITION}
\* Python's None; an Optional value is None or Some(v)
None == <<>>
Some(v) == <<v>>

Min(a, b) == IF a < b THEN a ELSE b
Range(s) == {s[i] : i \in DOMAIN s}
Last(s) == s[Len(s)]
Front(s) == SubSeq(s, 1, Len(s) - 1)

(***************************************************************************)
(* Texts of the input universe.                                            *)
(***************************************************************************)
NameA == <<"A">>
NameB == <<"B">>
NameC == <<"C">>
\* a callable name one character longer than SHARED_TEXT_LENGTH
NameLong == [i \in 1..(SHARED_TEXT_LENGTH + 1) |-> IF i <= SHARED_TEXT_LENGTH THEN "x" ELSE "y"]
\* another name with the same first SHARED_TEXT_LENGTH characters
NameLongZ == [i \in 1..(SHARED_TEXT_LENGTH + 1) |-> IF i <= SHARED_TEXT_LENGTH THEN "x" ELSE "z"]
FileF == <<"f", ".", "p", "y">>
FileG == <<"g", ".", "p", "y">>
ModFoo == <<"m", "o", "d", ".", "f", "o", "o">>
ModSink == <<"m", "o", "d", ".", "s", "i", "n", "k">>
LeafSql == <<"S", "q", "l">>
LeafS1 == <<"S", "1">>
LeafS2 == <<"S", "2">>
PortRoot == <<"r", "o", "o", "t">>
PortLeaf == <<"l", "e", "a", "f">>
PortSource == <<"s", "o", "u", "r", "c", "e">>
PortSink == <<"s", "i", "n", "k">>
PortAnchorX == <<"a", "n", "c", "h", "o", "r", ":", "x">>
PortAnchorBare == <<"a", "n", "c", "h", "o", "r">>
PortProducer1 == <<"p", "r", "o", "d", "u", "c", "e", "r", ":", "1">>
PortFormal == <<"f", "o", "r", "m", "a", "l", "(", "x", ")">>
PortResult == <<"r", "e", "s", "u", "l", "t">>

Loc(n) == [line |-> n, start |-> 1, end |-> 2]
\* a raw "titos" list of n positions
RawTitos(n) == [i \in 1..n |-> [line |-> i, start |-> 0, end |-> 1]]
NoInterval == <<>>
Interval12 == [start |-> 1, finish |-> 2]
\* no "start", and preserves_type_context given
IntervalUpperOnly == [finish |-> 7, preserves_type_context |-> TRUE]
\* bounds no interval has: start above finish
IntervalReversed == [start |-> 9, finish |-> 3]

(***************************************************************************)
(* The universe of raw trace fragments (CallInfo records of the pools).    *)
(* A fragment without the key "leaves" has no leaves field.  A pool keeps  *)
(* its fragments in the order of this sequence.  Fragments 1 to 8 are well *)
(* formed.                                                                 *)
(***************************************************************************)
FragU == <<
  \* 1: B:formal -> A:formal, closes the cycle A -> B -> A with fragment 2
  [kind |-> PRECONDITION, filename |-> FileF, caller |-> NameB, caller_port |-> PortFormal,
   callee |-> NameA, callee_port |-> PortFormal, callee_location |-> Loc(1),
   leaves |-> <<<<LeafS1, 1>>>>, sinks |-> <<>>, sources |-> <<>>,
   titos |-> <<>>, type_interval |-> NoInterval, annotations |-> <<>>],
  \* 2: A:formal -> B:formal
  [kind |-> PRECONDITION, filename |-> FileF, caller |-> NameA, caller_port |-> PortFormal,
   callee |-> NameB, callee_port |-> PortFormal, callee_location |-> Loc(2),
   leaves |-> <<<<LeafS1, 2>>, <<LeafS2, 1>>>>, sinks |-> <<>>, sources |-> <<>>,
   titos |-> RawTitos(2), type_interval |-> Interval12, annotations |-> <<>>],
  \* 3: B:formal -> C:leaf with an annotation whose nested precondition calls B:formal
  [kind |-> PRECONDITION, filename |-> FileF, caller |-> NameB, caller_port |-> PortFormal,
   callee |-> NameC, callee_port |-> PortLeaf, callee_location |-> Loc(3),
   leaves |-> <<<<LeafS1, 0>>>>, sinks |-> <<>>, sources |-> <<>>,
   titos |-> <<>>, type_interval |-> NoInterval,
   annotations |-> <<[location |-> Loc(30), kind |-> "tito_transform", msg |-> "m",
                      leaf_kind |-> LeafS2, leaf_depth |-> 1,
                      type_interval |-> NoInterval,
                      preconditions |-> <<[callee |-> NameB, port |-> PortFormal]>>]>>],
  \* 4: B:formal -> C:result, no "leaves" field, relates to S2 only
  [kind |-> PRECONDITION, filename |-> FileF, caller |-> NameB, caller_port |-> PortFormal,
   callee |-> NameC, callee_port |-> PortResult, callee_location |-> Loc(4),
   sinks |-> <<<<LeafS2, 0>>>>, sources |-> <<>>,
   titos |-> <<>>, type_interval |-> IntervalUpperOnly, annotations |-> <<>>],
  \* 5: B:formal -> <long name>:result, more than MaxTitos positions; S1 and S2,
  \*    so that it is reached with S1 first and with S2 later
  [kind |-> PRECONDITION, filename |-> FileG, caller |-> NameB, caller_port |-> PortFormal,
   callee |-> NameLong, callee_port |-> PortResult, callee_location |-> Loc(5),
   leaves |-> <<<<LeafS1, 1>>, <<LeafS2, 1>>>>, sinks |-> <<>>, sources |-> <<>>,
   titos |-> RawTitos(MaxTitos + 1), type_interval |-> NoInterval, annotations |-> <<>>],
  \* 6: C:result -> A:root
  [kind |-> PRECONDITION, filename |-> FileG, caller |-> NameC, caller_port |-> PortResult,
   callee |-> NameA, callee_port |-> PortRoot, callee_location |-> Loc(6),
   leaves |-> <<<<LeafS1, 2>>>>, sinks |-> <<>>, sources |-> <<>>,
   titos |-> <<>>, type_interval |-> IntervalReversed, annotations |-> <<>>],
  \* 7: A:root -> C:anchor:x, filed under a "root" port
  [kind |-> PRECONDITION, filename |-> FileF, caller |-> NameA, caller_port |-> PortRoot,
   callee |-> NameC, callee_port |-> PortAnchorX, callee_location |-> Loc(7),
   leaves |-> <<<<LeafS1, 1>>>>, sinks |-> <<>>, sources |-> <<>>,
   titos |-> <<>>, type_interval |-> NoInterval, annotations |-> <<>>],
  \* 8: postcondition B:result -> C:source, no "leaves" field; names the leaf S1
  \*    at two depths
  [kind |-> POSTCONDITION, filename |-> FileF, caller |-> NameB, caller_port |-> PortResult,
   callee |-> NameC, callee_port |-> PortSource, callee_location |-> Loc(8),
   sinks |-> <<>>, sources |-> <<<<LeafS1, 0>>, <<LeafS1, 1>>>>,
   titos |-> <<>>, type_interval |-> NoInterval, annotations |-> <<>>],
  \* 9: B:formal -> C:sink, a malformed record: no "filename"
  [kind |-> PRECONDITION, caller |-> NameB, caller_port |-> PortFormal,
   callee |-> NameC, callee_port |-> PortSink, callee_location |-> Loc(9),
   leaves |-> <<<<LeafS1, 0>>>>, sinks |-> <<>>, sources |-> <<>>,
   titos |-> <<>>, type_interval |-> NoInterval, annotations |-> <<>>],
  \* 10: <long name>:result -> C:leaf, filed under the callee of fragment 5, a
  \*     caller name longer than SHARED_TEXT_LENGTH
  [kind |-> PRECONDITION, filename |-> FileG, caller |-> NameLong, caller_port |-> PortResult,
   callee |-> NameC, callee_port |-> PortLeaf, callee_location |-> Loc(10),
   leaves |-> <<<<LeafS1, 0>>>>, sinks |-> <<>>, sources |-> <<>>,
   titos |-> <<>>, type_interval |-> NoInterval, annotations |-> <<>>]
>>

(***************************************************************************)
(* The universe of raw issue records.  Records 1 to 4 are well formed.      *)
(***************************************************************************)
IssueU == <<
  \* 1: A, one precondition edge to B:formal carrying S1
  [code |-> 5001, handle |-> "h1", callable |-> NameA, filename |-> FileF,
   message |-> <<"m", "1">>, line |-> 10, start |-> 1, end |-> 2,
   preconditions |-> <<[callee |-> NameB, port |-> PortFormal, location |-> Loc(11),
                        leaves |-> <<<<LeafS1, 1>>>>, titos |-> <<>>,
                        type_interval |-> NoInterval]>>,
   postconditions |-> <<>>,
   initial_sources |-> <<>>,
   final_sinks |-> <<<<<<"n">>, LeafS1, 1>>>>,
   features |-> <<>>],
  \* 2: A again with the handle of issue 1; S1 and S2, an oversized tito list,
  \*    a postcondition edge with an annotation without preconditions, fix_info
  [code |-> 5001, handle |-> "h1", callable |-> NameA, filename |-> FileF,
   message |-> <<"m", "1">>, line |-> 20, start |-> 1, end |-> 2,
   fix_info |-> "fix",
   preconditions |-> <<[callee |-> NameB, port |-> PortFormal, location |-> Loc(21),
                        leaves |-> <<<<LeafS1, 2>>, <<LeafS2, 1>>>>,
                        titos |-> RawTitos(MaxTitos + 50),
                        type_interval |-> Interval12]>>,
   postconditions |-> <<[callee |-> NameB, port |-> PortResult, location |-> Loc(22),
                         leaves |-> <<<<LeafS1, 3>>>>, titos |-> RawTitos(1),
                         type_interval |-> NoInterval,
                         annotations |-> <<[location |-> Loc(23), kind |-> "tito",
                                            msg |-> "n"]>>]>>,
   initial_sources |-> <<<<<<>>, LeafS1, 3>>>>,
   final_sinks |-> <<<<<<"n">>, LeafS1, 2>>, <<<<"n">>, LeafS2, 1>>>>,
   features |-> <<(<<"v", "i", "a">> :> [str |-> <<"t">>]) @@ (<<"a">> :> [int |-> 1])>>],
  \* 3: C, precondition edges to C:result, C:producer:1 and <long name>:anchor
  [code |-> 5002, handle |-> "h2", callable |-> NameC, filename |-> FileG,
   message |-> <<"m", "2">>, line |-> 30, start |-> 1, end |-> 2,
   preconditions |-> <<[callee |-> NameC, port |-> PortResult, location |-> Loc(31),
                        leaves |-> <<<<LeafS1, 4>>>>, titos |-> <<>>,
                        type_interval |-> NoInterval],
                       [callee |-> NameC, port |-> PortProducer1, location |-> Loc(32),
                        leaves |-> <<<<LeafS1, 5>>>>, titos |-> <<>>,
                        type_interval |-> NoInterval],
                       [callee |-> NameLongZ, port |-> PortAnchorBare, location |-> Loc(33),
                        leaves |-> <<>>, titos |-> <<>>,
                        type_interval |-> NoInterval]>>,
   postconditions |-> <<>>,
   initial_sources |-> <<>>,
   final_sinks |-> <<<<<<>>, LeafS1, 4>>>>,
   features |-> <<>>],
  \* 4: the end-to-end scenario: mod.foo, one precondition edge to mod.sink:sink
  [code |-> 5009, handle |-> "h1", callable |-> ModFoo, filename |-> FileF,
   message |-> <<"m", "9">>, line |-> 60, start |-> 1, end |-> 2,
   preconditions |-> <<[callee |-> ModSink, port |-> PortSink, location |-> Loc(61),
                        leaves |-> <<<<LeafSql, 1>>>>, titos |-> <<>>,
                        type_interval |-> NoInterval]>>,
   postconditions |-> <<>>,
   initial_sources |-> <<>>,
   final_sinks |-> <<<<LeafSql, <<"S", "i", "n", "k">>, 1>>>>,
   features |-> <<>>],
  \* 5: a malformed record: no "callable"
  [code |-> 5003, handle |-> "h3", filename |-> FileF,
   message |-> <<"m", "3">>, line |-> 40, start |-> 1, end |-> 2,
   preconditions |-> <<>>, postconditions |-> <<>>,
   initial_sources |-> <<>>, final_sinks |-> <<>>, features |-> <<>>],
  \* 6: a malformed record: A without "filename", one precondition edge to B:formal
  [code |-> 5004, handle |-> "h4", callable |-> NameA,
   message |-> <<"m", "4">>, line |-> 50, start |-> 1, end |-> 2,
   preconditions |-> <<[callee |-> NameB, port |-> PortFormal, location |-> Loc(51),
                        leaves |-> <<<<LeafS1, 1>>>>, titos |-> <<>>,
                        type_interval |-> NoInterval]>>,
   postconditions |-> <<>>,
   initial_sources |-> <<>>,
   final_sinks |-> <<<<<<"n">>, LeafS1, 1>>>>,
   features |-> <<>>]
>>

\* dict.get(key, default)
Get(d, key, default) == IF key \in DOMAIN d THEN d[key] ELSE default

\* input["issues"]
Issues == [i \in 1..Len(issue_sel) |-> IssueU[issue_sel[i]]]


(***************************************************************************)
(* TraceGraph and DBID (trace_graph.py, models.py).  The graph holds its   *)
(* entities in insertion order and its associations as bags of the add     *)
(* calls made.                                                             *)
(***************************************************************************)
EmptyGraph ==
  [shared_texts |-> <<>>, issues |-> <<>>, issue_instances |-> <<>>,
   trace_frames |-> <<>>, trace_annotations |-> <<>>, fix_infos |-> <<>>,
   trace_frame_leaf_assoc |-> EmptyBag,
   issue_instance_shared_text_assoc |-> EmptyBag,
   issue_instance_trace_frame_assoc |-> EmptyBag,
   trace_frame_annotation_trace_frame_assoc |-> EmptyBag]

\* TraceGraph.get_shared_text(kind, contents): the record's id, or None
get_shared_text(g, kind, contents) ==
  LET found == {t \in Range(g.shared_texts) : t.kind = kind /\ t.contents = contents}
  IN  IF found = {} THEN None ELSE Some((CHOOSE t \in found : TRUE).id)

add_shared_text(g, shared_text) ==
  [g EXCEPT !.shared_texts = Append(@, shared_text)]

\* TraceGraph.get_text(id): the contents of a SharedText
get_text(g, id) ==
  (CHOOSE t \in Range(g.shared_texts) : t.id = id).contents

add_issue(g, issue) == [g EXCEPT !.issues = Append(@, issue)]

add_issue_instance(g, instance) == [g EXCEPT !.issue_instances = Append(@, instance)]

add_trace_frame(g, frame) == [g EXCEPT !.trace_frames = Append(@, frame)]

add_trace_annotation(g, annotation) ==
  [g EXCEPT !.trace_annotations = Append(@, annotation)]

add_trace_frame_leaf_assoc(g, frame_id, leaf_id, depth) ==
  [g EXCEPT !.trace_frame_leaf_assoc = @ (+) SetToBag({<<frame_id, leaf_id, depth>>})]

add_issue_instance_shared_text_assoc(g, instance_id, text_id) ==
  [g EXCEPT !.issue_instance_shared_text_assoc = @ (+) SetToBag({<<instance_id, text_id>>})]

add_issue_instance_trace_frame_assoc(g, instance_id, frame_id) ==
  [g EXCEPT !.issue_instance_trace_frame_assoc = @ (+) SetToBag({<<instance_id, frame_id>>})]

add_issue_instance_fix_info(g, instance_id, fix_info) ==
  [g EXCEPT !.fix_infos = Append(@, <<instance_id, fix_info>>)]

add_trace_frame_annotation_trace_frame_assoc(g, annotation_id, frame_id) ==
  [g EXCEPT !.trace_frame_annotation_trace_frame_assoc =
              @ (+) SetToBag({<<annotation_id, frame_id>>})]

has_trace_frames_with_caller(g, kind, caller_id, caller_port) ==
  \E f \in Range(g.trace_frames) :
    f.kind = kind /\ f.caller_id = caller_id /\ f.caller_port = caller_port

get_trace_frames_from_caller(g, kind, caller_id, caller_port) ==
  SelectSeq(g.trace_frames,
            LAMBDA f : f.kind = kind /\ f.caller_id = caller_id
                       /\ f.caller_port = caller_port)

get_trace_frame_leaf_ids(g, frame_id) ==
  {a[2] : a \in {b \in BagToSet(g.trace_frame_leaf_assoc) : b[1] = frame_id}}

\* the frame record with a given id
FrameOf(g, frame_id) == CHOOSE f \in Range(g.trace_frames) : f.id = frame_id

(***************************************************************************)
(* Helpers of ModelGenerator.  A "world" w is the part of the state the    *)
(* helpers read and write, [graph, next_id, big_tito, made, interned], and *)
(* values a helper returns: out (a stack of returned values), frame (the   *)
(* TraceFrame being built) and leaf_ids (its leaf ids).                    *)
(***************************************************************************)
World ==
  [graph |-> graph, next_id |-> next_id, big_tito |-> big_tito, made |-> made,
   interned |-> interned, out |-> <<>>, frame |-> None, leaf_ids |-> {}]

SetWorld(w0) ==
  \E w \in {w0} :
    /\ graph' = w.graph
    /\ next_id' = w.next_id
    /\ big_tito' = w.big_tito
    /\ made' = w.made
    /\ interned' = w.interned

\* Python evaluates an argument once, before the call: Body applied to the
\* value of v
Strict(v, Body(_)) == CHOOSE r \in {Body(z) : z \in {v}} : TRUE

Out(w, v) == [w EXCEPT !.out = Append(@, v)]
Drop(w, n) == [w EXCEPT !.out = SubSeq(@, 1, Len(@) - n)]
\* the k-th last returned value
Ret(w0, k) == Strict(w0, LAMBDA w : w.out[Len(w.out) + 1 - k])

\* name in place of name[:SHARED_TEXT_LENGTH]
Truncate_Whole(name0) == name0

\* name[:SHARED_TEXT_LENGTH]
Truncate(name0) ==
  Strict(name0, LAMBDA name : SubSeq(name, 1, Min(Len(name), SHARED_TEXT_LENGTH)))

\* the call _get_shared_text(kind, name) returned the record with this id
Interned(w, kind, name, id) ==
  [w EXCEPT !.interned = @ \cup {[kind |-> kind, name |-> name, id |-> id]}]

\* _get_shared_text without the lookup: every call creates a record
_get_shared_text_AlwaysNew(w0, kind, name) ==
  Strict(w0, LAMBDA w :
  Out(Interned([w EXCEPT !.graph = add_shared_text(@, [id |-> w.next_id,
                                                       contents |-> Truncate(name),
                                                       kind |-> kind]),
                         !.next_id = @ + 1],
               kind, name, w.next_id),
      w.next_id))

\* _get_shared_text: returns the interned record's id, created on first use
_get_shared_text(w0, kind, name) ==
  Strict(w0, LAMBDA w :
  LET found == get_shared_text(w.graph, kind, Truncate(name))
  IN  IF found # None
      THEN Out(Interned(w, kind, name, found[1]), found[1])
      ELSE Out(Interned([w EXCEPT !.graph = add_shared_text(@, [id |-> w.next_id,
                                                        contents |-> Truncate(name),
                                                        kind |-> kind]),
                                  !.next_id = @ + 1],
                        kind, name, w.next_id),
               w.next_id))

SourceLocation(t0) == Strict(t0, LAMBDA t : <<t.line, t.start, t.end>>)

\* titos[-200:] in place of titos[:200]
CapTitos_Last(titos) == SubSeq(titos, Len(titos) - MaxTitos + 1, Len(titos))

\* titos[:200]
CapTitos(titos) == SubSeq(titos, 1, Min(Len(titos), MaxTitos))

\* line 226-229: the positions of entry.get("titos", [])
TitoLocations(entry) ==
  Strict(Get(entry, "titos", <<>>), LAMBDA titos :
    [i \in 1..Len(titos) |-> SourceLocation(titos[i])])

\* _generate_tito recording the stored count in place of len(titos)
_generate_tito_StoredCount(w, filename, entry, callable) ==
  Strict(TitoLocations(entry), LAMBDA titos :
    IF Len(titos) > MaxTitos
    THEN Out([w EXCEPT !.big_tito = @ \cup {<<filename, callable, Len(CapTitos(titos))>>}],
             CapTitos(titos))
    ELSE Out(w, titos))

\* _generate_tito: returns the stored positions; big_tito grows on overflow
_generate_tito(w, filename, entry, callable) ==
  Strict(TitoLocations(entry), LAMBDA titos :
    IF Len(titos) > MaxTitos
    THEN Out([w EXCEPT !.big_tito = @ \cup {<<filename, callable, Len(titos)>>}],
             CapTitos(titos))
    ELSE Out(w, titos))

\* dict.get(key): Some(d[key]), or None
GetOpt(d, key) == IF key \in DOMAIN d THEN Some(d[key]) ELSE None

\* _get_interval with "start" and "finish" exchanged
_get_interval_FinishFirst(ti) ==
  <<GetOpt(ti, "finish"), GetOpt(ti, "start"),
    Get(ti, "preserves_type_context", FALSE)>>

\* _get_interval, lines 417-421
_get_interval(ti) ==
  <<GetOpt(ti, "start"), GetOpt(ti, "finish"),
    Get(ti, "preserves_type_context", FALSE)>>

StartsWith(port, prefix) ==
  Len(port) >= Len(prefix) /\ SubSeq(port, 1, Len(prefix)) = prefix

\* _is_leaf_port without "sink"
_is_leaf_port_NoSink(port) ==
  \/ port = PortLeaf
  \/ port = PortSource
  \/ StartsWith(port, <<"a", "n", "c", "h", "o", "r", ":">>)
  \/ StartsWith(port, <<"p", "r", "o", "d", "u", "c", "e", "r", ":">>)

\* _is_leaf_port without its last disjunct
_is_leaf_port_NoProducer(port) ==
  \/ port = PortLeaf
  \/ port = PortSource
  \/ port = PortSink
  \/ StartsWith(port, <<"a", "n", "c", "h", "o", "r", ":">>)

_is_leaf_port(port) ==
  \/ port = PortLeaf
  \/ port = PortSource
  \/ port = PortSink
  \/ StartsWith(port, <<"a", "n", "c", "h", "o", "r", ":">>)
  \/ StartsWith(port, <<"p", "r", "o", "d", "u", "c", "e", "r", ":">>)

\* lines 364-392: the TraceFrame record, from the interned caller, callee and
\* filename ids returned last
NewFrame(w0, kind, caller_port, callee_port, callee_location, titos, type_interval) ==
  Strict(w0, LAMBDA w :
  [Drop(w, 3) EXCEPT
     !.frame = [id |-> w.next_id, kind |-> kind,
                caller_id |-> Ret(w, 3), caller_port |-> caller_port,
                callee_id |-> Ret(w, 2), callee_port |-> callee_port,
                callee_location |-> SourceLocation(callee_location),
                filename_id |-> Ret(w, 1), titos |-> titos, run_id |-> run.id,
                preserves_type_context |-> _get_interval(type_interval)[3],
                type_interval_lower |-> _get_interval(type_interval)[1],
                type_interval_upper |-> _get_interval(type_interval)[2]],
     !.leaf_ids = {},
     !.next_id = @ + 1])

\* lines 397-398 with the association added for the trace frame and again
AddLeaf_Twice(w0, depth) ==
  Strict(w0, LAMBDA w :
  [Drop(w, 1) EXCEPT
     !.leaf_ids = @ \cup {Ret(w, 1)},
     !.graph = add_trace_frame_leaf_assoc(
                 add_trace_frame_leaf_assoc(@, w.frame.id, Ret(w, 1), depth),
                 w.frame.id, Ret(w, 1), depth)])

\* lines 397-398: the leaf interned last joins leaf_ids and is associated
AddLeaf(w0, depth) ==
  Strict(w0, LAMBDA w :
  [Drop(w, 1) EXCEPT
     !.leaf_ids = @ \cup {Ret(w, 1)},
     !.graph = add_trace_frame_leaf_assoc(@, w.frame.id, Ret(w, 1), depth)])

\* lines 394-398 with the loop left after its first leaf
AddLeaves_First(w, leaf_kind, leaves) ==
  IF leaves = <<>>
  THEN w
  ELSE AddLeaf(_get_shared_text(w, leaf_kind, Head(leaves)[1]), Head(leaves)[2])

\* lines 394-398: the loop over the leaves
RECURSIVE AddLeaves(_, _, _)
AddLeaves(w, leaf_kind, leaves) ==
  IF leaves = <<>>
  THEN w
  ELSE AddLeaves(AddLeaf(_get_shared_text(w, leaf_kind, Head(leaves)[1]),
                         Head(leaves)[2]),
                 leaf_kind, Tail(leaves))

\* line 400: add_trace_frame; origin names the raw record the frame is built from
AddFrame(w0, origin) ==
  Strict(w0, LAMBDA w :
  [w EXCEPT !.graph = add_trace_frame(@, w.frame),
            !.made = Append(@, [frame |-> w.frame.id, origin |-> origin,
                                issue |-> idx])])

\* _generate_raw_trace_frame with leaf_kind (lines 364-368) SINK for every kind
_generate_raw_trace_frame_SinkLeaves(w, kind, filename, caller, caller_port, callee, callee_port, callee_location, titos, leaves, type_interval, origin) ==
  AddFrame(
    AddLeaves(
      NewFrame(
        _get_shared_text(
          _get_shared_text(
            _get_shared_text(w, "CALLABLE", caller),
            "CALLABLE", callee),
          "FILENAME", filename),
        kind, caller_port, callee_port, callee_location, titos, type_interval),
      "SINK", leaves),
    origin)

\* _generate_raw_trace_frame up to add_trace_frame; the annotations are the
\* caller's next steps.  Returns (frame, leaf_ids) in w.frame and w.leaf_ids.
_generate_raw_trace_frame(w, kind, filename, caller, caller_port, callee, callee_port, callee_location, titos, leaves, type_interval, origin) ==
  AddFrame(
    AddLeaves(
      NewFrame(
        _get_shared_text(
          _get_shared_text(
            _get_shared_text(w, "CALLABLE", caller),
            "CALLABLE", callee),
          "FILENAME", filename),
        kind, caller_port, callee_port, callee_location, titos, type_interval),
      IF kind = POSTCONDITION THEN "SOURCE" ELSE "SINK", leaves),
    origin)

(***************************************************************************)
(* The initial state: run() up to the loop over the issues (lines 49-66).  *)
(***************************************************************************)
\* a raw record without one of the fields the code subscripts
Lacks(entry, fields) == \E f \in fields : f \notin DOMAIN entry
\* entry["callable"] (lines 81, 137, 243) and entry["filename"] (lines 180, 246)
IssueFields == {"callable", "filename"}
\* entry["callee_location"], entry["filename"], entry["caller"] (lines 327-328)
FragmentFields == {"callee_location", "filename", "caller"}

\* the issue of the end-to-end scenario; it is run on its own
EndToEnd == 4
\* the well-formed inputs
IssueSeqs ==
  UNION {[1..n -> {i \in DOMAIN IssueU \ {EndToEnd} : ~Lacks(IssueU[i], IssueFields)}] :
           n \in 0..MaxIssues}
    \cup {<<EndToEnd>>}
\* the fragments whose caller name fits a shared text
Fitting ==
  {i \in DOMAIN FragU : Len(Get(FragU[i], "caller", <<>>)) <= SHARED_TEXT_LENGTH}
PoolSels ==
  {S \in SUBSET {i \in Fitting : ~Lacks(FragU[i], FragmentFields)} :
     Cardinality(S) <= MaxPool}
\* all inputs
AnyIssueSeqs ==
  UNION {[1..n -> DOMAIN IssueU \ {EndToEnd}] : n \in 0..MaxIssues} \cup {<<EndToEnd>>}
AnyPoolSels == {S \in SUBSET Fitting : Cardinality(S) <= MaxPool}
\* the well-formed pools that file a fragment under a caller name longer than
\* SHARED_TEXT_LENGTH
LongCallerPoolSels ==
  {S \in SUBSET {i \in DOMAIN FragU : ~Lacks(FragU[i], FragmentFields)} :
     Cardinality(S) <= MaxPool /\ S \ Fitting # {}}

KeyOf(i) == <<FragU[i].caller, FragU[i].caller_port>>

\* input["preconditions"] / input["postconditions"] as the loader files them:
\* (caller, caller_port) -> the fragments with that caller and port
PoolOf(sel, kind) ==
  LET frs == SelectSeq([i \in 1..Len(FragU) |-> i],
                       LAMBDA i : i \in sel /\ FragU[i].kind = kind)
      keys == {KeyOf(i) : i \in Range(frs)}
  IN  [k \in keys |-> SelectSeq(frs, LAMBDA i : KeyOf(i) = k)]

\* lines 89-105 with the status argument dropped for the default of line 90
_create_empty_run_Default(status) == [id |-> 1, status |-> "FINISHED"]

\* _create_empty_run(status=RunStatus.INCOMPLETE), then run.id = DBID()
_create_empty_run(status) == [id |-> 1, status |-> status]

\* run() at line 65 (at = "start") or at line 67 (at = "issues")
RunAt(at) ==
  /\ store_unused_models = None
  /\ trace_entries = [k \in TraceKind |-> PoolOf(pool_sel, k)]
  /\ graph = EmptyGraph
  /\ run = _create_empty_run("INCOMPLETE")
  /\ next_id = 2
  /\ visited_frames = <<>>
  /\ missing_traces = [k \in TraceKind |-> {}]
  /\ big_tito = {}
  /\ pc = at
  /\ idx = 1
  /\ stack = <<>>
  /\ made = <<>>
  /\ pop_log = {}
  /\ lookup_log = {}
  /\ interned = {}

\* a well-formed input: _compute_callables_count has returned
Init ==
  /\ issue_sel \in IssueSeqs
  /\ pool_sel \in PoolSels
  /\ prior = None
  /\ parked = None
  /\ RunAt("issues")

\* a well-formed input whose pool files a fragment under a long caller name
InitLongCaller ==
  /\ issue_sel \in IssueSeqs
  /\ pool_sel \in LongCallerPoolSels
  /\ prior = None
  /\ parked = None
  /\ RunAt("issues")

\* an input with a malformed record, before _compute_callables_count
InitMalformed ==
  /\ issue_sel \in AnyIssueSeqs
  /\ pool_sel \in AnyPoolSels
  /\ issue_sel \notin IssueSeqs \/ pool_sel \notin PoolSels
  /\ prior = None
  /\ parked = None
  /\ RunAt("start")

(***************************************************************************)
(* The call stack.  Frames, by op:                                         *)
(*   "issue"       _generate_issue, in its loops over the issue's edges    *)
(*   "annotations" _generate_trace_annotations of a new frame              *)
(*   "transitive"  _generate_transitive_trace_frames, with its queue       *)
(*   "populate"    the list comprehension of _get_or_populate_trace_frames *)
(***************************************************************************)
Top == Last(stack)

\* _generate_raw_trace_frame returns (frame, leaf_ids) to the frame on top of stk
ReturnFrame(stk, kind, frame, leaf_ids) ==
  IF Last(stk).op = "populate"
  THEN \* _generate_trace_frame returns into the list "new"
       [stk EXCEPT ![Len(stk)].new = Append(@, <<frame, leaf_ids>>),
                   ![Len(stk)].entries = Tail(@)]
  ELSE \* _generate_issue_traces, _generate_annotation_precondition: line 261, 479
       Append(stk, [op |-> "transitive", kind |-> kind, start |-> frame,
                    queue |-> <<<<frame, leaf_ids>>>>])

\* line 401 left out: the frame is returned without its annotations
AfterRawFrame_NoAnnotations(stk, kind, frame, leaf_ids, annotations, filename, caller) ==
  ReturnFrame(stk, kind, frame, leaf_ids)

\* after add_trace_frame: the annotations of the new frame, if any (line 401)
AfterRawFrame(stk, kind, frame, leaf_ids, annotations, filename, caller) ==
  IF annotations = <<>>
  THEN ReturnFrame(stk, kind, frame, leaf_ids)
  ELSE Append(stk, [op |-> "annotations", kind |-> kind, parent |-> frame,
                    leaf_ids |-> leaf_ids, filename |-> filename, caller |-> caller,
                    annotations |-> annotations, annotation |-> None,
                    record |-> None, traces |-> <<>>])

\* run, lines 68-69: the next issue; _generate_issue starts its loops (123-131)
StartIssue ==
  /\ pc = "issues" /\ stack = <<>> /\ idx <= Len(Issues)
  /\ LET entry == Issues[idx]
     IN  stack' = <<[op |-> "issue",
                     todo |-> [j \in 1..Len(entry.preconditions) |-> <<PRECONDITION, j>>]
                              \o [j \in 1..Len(entry.postconditions) |-> <<POSTCONDITION, j>>],
                     trace_frames |-> <<>>]>>
  /\ UNCHANGED <<prior, parked, issue_sel, store_unused_models, pool_sel, trace_entries, graph, next_id,
                 visited_frames, missing_traces, big_tito, run, pc, idx, made,
                 pop_log, lookup_log, interned>>

\* _generate_issue_traces, lines 243-260: the first-hop frame of an issue's edge
GenerateIssueTraces ==
  /\ stack # <<>> /\ Top.op = "issue" /\ Top.todo # <<>>
  /\ ~Lacks(Issues[idx], IssueFields)
  /\ LET kind == Head(Top.todo)[1]
         issue == Issues[idx]
         callinfo == IF kind = PRECONDITION
                     THEN issue.preconditions[Head(Top.todo)[2]]
                     ELSE issue.postconditions[Head(Top.todo)[2]]
         caller == issue.callable
     IN  \E t \in {_generate_tito(World, issue.filename, callinfo, caller)} :
         \E r \in {_generate_raw_trace_frame(
                      t, kind, issue.filename, caller, PortRoot, callinfo.callee,
                      callinfo.port, callinfo.location, Ret(t, 1), callinfo.leaves,
                      callinfo.type_interval,
                      [src |-> "issue", issue |-> idx, kind |-> kind,
                       pos |-> Head(Top.todo)[2]])} :
           /\ SetWorld(r)
           /\ stack' = AfterRawFrame(stack, kind, r.frame.id, r.leaf_ids,
                                     Get(callinfo, "annotations", <<>>),
                                     issue.filename, caller)
  /\ UNCHANGED <<prior, parked, issue_sel, store_unused_models, pool_sel, trace_entries, visited_frames,
                 missing_traces, run, pc, idx, pop_log, lookup_log>>

\* lines 437-441: the annotation's leaf_id, None without a leaf_kind
AnnotationLeaf(w0, annotation) ==
  Strict(w0, LAMBDA w :
  IF Get(annotation, "leaf_kind", <<>>) = <<>>
  THEN Out(w, None)
  ELSE Out(Drop(_get_shared_text(w, "SINK", annotation.leaf_kind), 1),
           Some(Ret(_get_shared_text(w, "SINK", annotation.leaf_kind), 1))))

\* lines 429-445: the TraceFrameAnnotation record, added to the graph
AddAnnotation(w0, id, parent_id, annotation) ==
  Strict(w0, LAMBDA w :
  [Drop(w, 1) EXCEPT
     !.graph = add_trace_annotation(@,
       [id |-> id, trace_frame_id |-> parent_id,
        location |-> SourceLocation(annotation.location),
        kind |-> annotation.kind, message |-> annotation.msg,
        leaf_id |-> Ret(w, 1),
        link |-> GetOpt(annotation, "link"),
        trace_key |-> GetOpt(annotation, "trace_key")])])

AnnotationRecord(w0, parent_id, annotation) ==
  Strict(w0, LAMBDA w :
  AddAnnotation(AnnotationLeaf([w EXCEPT !.next_id = @ + 1], annotation),
                w.next_id, parent_id, annotation))

\* _generate_trace_annotations, lines 427-447: the record of the next annotation
GenerateTraceAnnotation ==
  /\ stack # <<>> /\ Top.op = "annotations"
  /\ Top.traces = <<>> /\ Top.annotations # <<>>
  /\ LET annotation == Head(Top.annotations)
     IN  /\ SetWorld(AnnotationRecord(World, Top.parent, annotation))
         /\ stack' = [stack EXCEPT ![Len(stack)].annotations = Tail(@),
                                   ![Len(stack)].annotation = annotation,
                                   ![Len(stack)].record = next_id,
                                   ![Len(stack)].traces =
                                       Get(annotation, "preconditions", <<>>)]
  /\ UNCHANGED <<prior, parked, issue_sel, store_unused_models, pool_sel, trace_entries, visited_frames,
                 missing_traces, run, pc, idx, pop_log, lookup_log>>

\* _generate_annotation_precondition, lines 463-479: the first-hop frame of a
\* precondition nested in the current annotation
GenerateAnnotationPrecondition ==
  /\ stack # <<>> /\ Top.op = "annotations" /\ Top.traces # <<>>
  /\ LET trace == Head(Top.traces)
         annotation == Top.annotation
     IN  \E r \in {_generate_raw_trace_frame(
                      World, PRECONDITION, Top.filename, Top.caller, PortRoot,
                      trace.callee, trace.port, annotation.location, <<>>,
                      <<<<annotation.leaf_kind, annotation.leaf_depth>>>>,
                      annotation.type_interval,
                      [src |-> "annotation", record |-> Top.record,
                       annotation |-> annotation,
                       pos |-> Len(annotation.preconditions) - Len(Top.traces) + 1])} :
           /\ SetWorld(r)
           /\ stack' = Append(stack, [op |-> "transitive", kind |-> PRECONDITION,
                                      start |-> r.frame.id,
                                      queue |-> <<<<r.frame.id, r.leaf_ids>>>>])
  /\ UNCHANGED <<prior, parked, issue_sel, store_unused_models, pool_sel, trace_entries, visited_frames,
                 missing_traces, run, pc, idx, pop_log, lookup_log>>

\* _generate_trace_annotations returns; _generate_raw_trace_frame returns (404)
AnnotationsDone ==
  /\ stack # <<>> /\ Top.op = "annotations"
  /\ Top.traces = <<>> /\ Top.annotations = <<>>
  /\ stack' = ReturnFrame(Front(stack), Top.kind, Top.parent, Top.leaf_ids)
  /\ UNCHANGED <<prior, parked, issue_sel, store_unused_models, pool_sel, trace_entries, graph, next_id,
                 visited_frames, missing_traces, big_tito, run, pc, idx, made,
                 pop_log, lookup_log, interned>>


(***************************************************************************)
(* _generate_transitive_trace_frames: one action per iteration of the      *)
(* while loop (lines 272-296).  queue.pop() takes the last item.           *)
(***************************************************************************)
\* line 273 with the item read at the other end of the list
Item_Oldest == Head(Top.queue)

Item == Last(Top.queue)

\* lines 277-281: the leaves of the item not yet recorded for its frame
NewLeaves(frame_id, leaves) ==
  IF frame_id \in DOMAIN visited_frames
  THEN leaves \ visited_frames[frame_id]
  ELSE leaves

\* lines 283, 285 with the update of line 283 written as an assignment
Visit_Replace(frame_id, leaves) ==
  IF frame_id \in DOMAIN visited_frames
  THEN [visited_frames EXCEPT ![frame_id] = leaves]
  ELSE (frame_id :> leaves) @@ visited_frames

\* lines 283, 285: visited_frames after the item passed the check
Visit(frame_id, leaves) ==
  IF frame_id \in DOMAIN visited_frames
  THEN [visited_frames EXCEPT ![frame_id] = @ \cup leaves]
  ELSE (frame_id :> leaves) @@ visited_frames

\* lines 274-275 and 280-281: the item is dropped (continue)
SkipsItem(frame_id, leaves) ==
  leaves = {} \/ NewLeaves(frame_id, leaves) = {}

\* lines 290-296 without the intersection: each next frame with the leaves of
\* the frame expanded
Intersections_Passed(leaves, next_frames) ==
  [i \in 1..Len(next_frames) |-> <<next_frames[i][1], leaves>>]

\* lines 290-296 without the intersection: each next frame with its own leaves
Intersections_Own(leaves, next_frames) ==
  [i \in 1..Len(next_frames) |-> <<next_frames[i][1], next_frames[i][2]>>]

\* lines 290-296: the next frames paired with the leaves they share
Intersections(leaves, next_frames) ==
  [i \in 1..Len(next_frames) |-> <<next_frames[i][1], leaves \cap next_frames[i][2]>>]

\* the pop empties the dict: no key stays filed
DictPop_Clear(d, key) == [k \in {} |-> d[k]]

\* dict.get(key, []) in place of dict.pop(key, []): the key stays filed
DictPop_Get(d, key) == d

\* dict.pop(key, []): the dict without the key
DictPop(d, key) == [k \in DOMAIN d \ {key} |-> d[k]]

\* an item with no leaves, or with no leaf new to its frame
TransitiveSkip ==
  /\ stack # <<>> /\ Top.op = "transitive" /\ Top.queue # <<>>
  /\ SkipsItem(Item[1], Item[2])
  /\ stack' = [stack EXCEPT ![Len(stack)].queue = Front(@)]
  /\ UNCHANGED <<prior, parked, issue_sel, store_unused_models, pool_sel, trace_entries, graph, next_id,
                 visited_frames, missing_traces, big_tito, run, pc, idx, made,
                 pop_log, lookup_log, interned>>

\* lines 311-316 asking the graph for the frames of the other kind
FramesFromGraph_OtherKind(kind, caller_id, caller_port) ==
  LET other == IF kind = PRECONDITION THEN POSTCONDITION ELSE PRECONDITION
      found == get_trace_frames_from_caller(graph, other, caller_id, caller_port)
  IN  [i \in 1..Len(found) |->
         <<found[i].id, get_trace_frame_leaf_ids(graph, found[i].id)>>]

\* lines 311-316 with the first of the frames only
FramesFromGraph_First(kind, caller_id, caller_port) ==
  LET found == get_trace_frames_from_caller(graph, kind, caller_id, caller_port)
  IN  <<<<found[1].id, get_trace_frame_leaf_ids(graph, found[1].id)>>>>

\* lines 311-316: the frames of the graph under the caller, each with its leaf ids
FramesFromGraph(kind, caller_id, caller_port) ==
  LET found == get_trace_frames_from_caller(graph, kind, caller_id, caller_port)
  IN  [i \in 1..Len(found) |->
         <<found[i].id, get_trace_frame_leaf_ids(graph, found[i].id)>>]

\* the callee of the item's frame already has frames in the graph (310-316)
TransitiveFromGraph ==
  /\ stack # <<>> /\ Top.op = "transitive" /\ Top.queue # <<>>
  /\ ~SkipsItem(Item[1], Item[2])
  /\ LET frame == FrameOf(graph, Item[1])
         leaves == NewLeaves(Item[1], Item[2])
         found == get_trace_frames_from_caller(graph, Top.kind, frame.callee_id,
                                               frame.callee_port)
         next_frames == FramesFromGraph(Top.kind, frame.callee_id, frame.callee_port)
     IN  /\ has_trace_frames_with_caller(graph, Top.kind, frame.callee_id,
                                         frame.callee_port)
         /\ visited_frames' = Visit(Item[1], leaves)
         /\ stack' = [stack EXCEPT ![Len(stack)].queue =
                                      Front(@) \o Intersections(leaves, next_frames)]
         /\ lookup_log' = lookup_log \cup
                             {[frame |-> Item[1], kind |-> Top.kind,
                               key |-> <<get_text(graph, frame.callee_id),
                                         frame.callee_port>>,
                               leaves |-> leaves, from |-> "graph",
                               found |-> Len(found)]}
  /\ UNCHANGED <<prior, parked, issue_sel, store_unused_models, pool_sel, trace_entries, graph, next_id,
                 missing_traces, big_tito, run, pc, idx, made, pop_log, interned>>

\* no frame yet: the fragments filed under the callee are popped (317-320)
TransitiveFromPool ==
  /\ stack # <<>> /\ Top.op = "transitive" /\ Top.queue # <<>>
  /\ ~SkipsItem(Item[1], Item[2])
  /\ LET frame == FrameOf(graph, Item[1])
         leaves == NewLeaves(Item[1], Item[2])
         key == <<get_text(graph, frame.callee_id), frame.callee_port>>
         entries == Get(trace_entries[Top.kind], key, <<>>)
     IN  /\ ~has_trace_frames_with_caller(graph, Top.kind, frame.callee_id,
                                          frame.callee_port)
         /\ visited_frames' = Visit(Item[1], leaves)
         /\ trace_entries' = [trace_entries EXCEPT ![Top.kind] = DictPop(@, key)]
         /\ stack' = Append([stack EXCEPT ![Len(stack)].queue = Front(@)],
                            [op |-> "populate", kind |-> Top.kind, key |-> key,
                             entries |-> entries, new |-> <<>>, leaves |-> leaves,
                             frame |-> Item[1],
                             shared |-> Item[1] \notin DOMAIN visited_frames])
         /\ pop_log' = pop_log \cup
                          {[kind |-> Top.kind, key |-> key, entries |-> entries,
                            first |-> ~\E p \in pop_log :
                                         p.kind = Top.kind /\ p.key = key]}
         /\ lookup_log' = lookup_log \cup
                             {[frame |-> Item[1], kind |-> Top.kind, key |-> key,
                               leaves |-> leaves, from |-> "pool",
                               found |-> Len(entries)]}
  /\ UNCHANGED <<prior, parked, issue_sel, store_unused_models, pool_sel, graph, next_id, missing_traces,
                 big_tito, run, pc, idx, made, interned>>

\* lines 329-333 with the default taken from the other field
EntryLeaves_Swapped(kind, entry) ==
  IF Get(entry, "leaves", <<>>) = <<>>
  THEN (IF kind = POSTCONDITION THEN entry.sinks ELSE entry.sources)
  ELSE entry.leaves

\* lines 329-333: the entry's leaves, by default its sources or sinks
EntryLeaves(kind, entry) ==
  IF Get(entry, "leaves", <<>>) = <<>>
  THEN (IF kind = POSTCONDITION THEN entry.sources ELSE entry.sinks)
  ELSE entry.leaves

\* _generate_trace_frame, lines 327-347, for the next popped fragment
GenerateTraceFrame ==
  /\ stack # <<>> /\ Top.op = "populate" /\ Top.entries # <<>>
  /\ ~Lacks(FragU[Head(Top.entries)], FragmentFields)
  /\ LET entry == FragU[Head(Top.entries)]
     IN  \E t \in {_generate_tito(World, entry.filename, entry, entry.caller)} :
         \E r \in {_generate_raw_trace_frame(
                      t, Top.kind, entry.filename, entry.caller, entry.caller_port,
                      entry.callee, entry.callee_port, entry.callee_location, Ret(t, 1),
                      EntryLeaves(Top.kind, entry), entry.type_interval,
                      [src |-> "pool", fragment |-> Head(Top.entries)])} :
           /\ SetWorld(r)
           /\ stack' = AfterRawFrame(stack, Top.kind, r.frame.id, r.leaf_ids,
                                     Get(entry, "annotations", <<>>),
                                     entry.filename, entry.caller)
  /\ UNCHANGED <<prior, parked, issue_sel, store_unused_models, pool_sel, trace_entries, visited_frames,
                 missing_traces, run, pc, idx, pop_log, lookup_log>>

\* lines 322-323 with the test of "new" inverted
RecordMissing_Found(kind, key, new) ==
  IF Len(new) # 0 /\ ~_is_leaf_port(key[2])
  THEN [missing_traces EXCEPT ![kind] = @ \cup {key}]
  ELSE missing_traces

\* lines 322-323: the keys recorded as missing after a lookup that made "new"
RecordMissing(kind, key, new) ==
  IF Len(new) = 0 /\ ~_is_leaf_port(key[2])
  THEN [missing_traces EXCEPT ![kind] = @ \cup {key}]
  ELSE missing_traces

\* the set "leaves" of the loop body when the lookup returns: on the first visit
\* of a frame it is the very set stored in visited_frames (line 285), which the
\* expansions nested in the lookup may have updated (line 283)
LeavesAfterLookup(populate) ==
  IF populate.shared THEN visited_frames[populate.frame] ELSE populate.leaves

\* _get_or_populate_trace_frames returns "new" (322-324); the queue is extended
PopulateDone ==
  /\ stack # <<>> /\ Top.op = "populate" /\ Top.entries = <<>>
  /\ missing_traces' = RecordMissing(Top.kind, Top.key, Top.new)
  /\ stack' = [Front(stack) EXCEPT ![Len(stack) - 1].queue =
                                      @ \o Intersections(LeavesAfterLookup(Top), Top.new)]
  /\ UNCHANGED <<prior, parked, issue_sel, store_unused_models, pool_sel, trace_entries, graph, next_id,
                 visited_frames, big_tito, run, pc, idx, made, pop_log, lookup_log, interned>>

\* the queue is empty: _generate_transitive_trace_frames returns to
\* _generate_issue_traces (262, 127, 131) or to _generate_trace_annotations (452)
TransitiveDone ==
  /\ stack # <<>> /\ Top.op = "transitive" /\ Top.queue = <<>>
  /\ LET below == stack[Len(stack) - 1]
     IN  IF below.op = "issue"
         THEN /\ stack' = [Front(stack) EXCEPT
                             ![Len(stack) - 1].trace_frames = Append(@, Top.start),
                             ![Len(stack) - 1].todo = Tail(@)]
              /\ graph' = graph
         ELSE /\ stack' = [Front(stack) EXCEPT ![Len(stack) - 1].traces = Tail(@)]
              /\ graph' = add_trace_frame_annotation_trace_frame_assoc(
                            graph, below.record, Top.start)
  /\ UNCHANGED <<prior, parked, issue_sel, store_unused_models, pool_sel, trace_entries, next_id,
                 visited_frames, missing_traces, big_tito, run, pc, idx, made,
                 pop_log, lookup_log, interned>>


(***************************************************************************)
(* _generate_issue after its first-hop loops: lines 133-222.               *)
(***************************************************************************)

\* lines 78-87 with the count taken over the records processed so far
_compute_callables_count_SoFar(callable) ==
  Cardinality({i \in 1..Min(idx, Len(Issues)) : Issues[i].callable = callable})

\* _compute_callables_count(input)[callable]
_compute_callables_count(callable) ==
  Cardinality({i \in 1..Len(Issues) : Issues[i].callable = callable})

\* lines 107-115 with the comparison of line 111 turned around: the longest depth
_get_minimum_trace_length_Max(entries) ==
  LET depths == UNION {{leaf[2] : leaf \in Range(entries[i].leaves)} : i \in DOMAIN entries}
  IN  IF depths = {} THEN 0 ELSE CHOOSE d \in depths : \A e \in depths : d >= e

\* _get_minimum_trace_length(entries)
_get_minimum_trace_length(entries) ==
  LET depths == UNION {{leaf[2] : leaf \in Range(entries[i].leaves)} : i \in DOMAIN entries}
  IN  IF depths = {} THEN 0 ELSE CHOOSE d \in depths : \A e \in depths : d <= e

\* _generate_issue_feature_contents with the key alone for every value
_generate_issue_feature_contents_KeyOnly(feature) ==
  {key : key \in DOMAIN feature}

\* _generate_issue_feature_contents(issue, feature)
_generate_issue_feature_contents(feature) ==
  {IF "str" \in DOMAIN feature[key] /\ feature[key].str # <<>>
   THEN key \o <<":">> \o feature[key].str
   ELSE key : key \in DOMAIN feature}

\* a set comprehension {self._get_shared_text(kind, n) for n in names}: returns
\* the set of the interned ids
RECURSIVE InternAll(_, _, _, _)
InternAll(w0, kind, names, ids) ==
  Strict(w0, LAMBDA w :
  IF names = <<>>
  THEN Out(w, ids)
  ELSE InternAll(Drop(_get_shared_text(w, kind, Head(names)), 1), kind, Tail(names),
                 ids \cup {Ret(_get_shared_text(w, kind, Head(names)), 1)}))

Column(triples, k) == [i \in 1..Len(triples) |-> triples[i][k]]
NonEmpty(names) == SelectSeq(names, LAMBDA n : n # <<>>)

\* lines 159-168: a new Issue record is added; returns its id
NewIssue(w0, entry) ==
  Strict(w0, LAMBDA w :
  Out([w EXCEPT !.graph = add_issue(@, [id |-> w.next_id, code |-> entry.code,
                                        handle |-> entry.handle,
                                        status |-> "UNCATEGORIZED",
                                        run_id |-> run.id]),
                !.next_id = @ + 1],
      w.next_id))

\* lines 170-176: returns the IssueInstanceFixInfo record, or None
NewFixInfo(w0, entry) ==
  Strict(w0, LAMBDA w :
  IF "fix_info" \in DOMAIN entry
  THEN Out([w EXCEPT !.next_id = @ + 1],
           Some([id |-> w.next_id, fix_info |-> <<"json.dumps", entry.fix_info>>]))
  ELSE Out(w, None))

\* lines 184-201: the IssueInstance record, kept in w.frame until it is added.
\* Returned before it: sources, sinks, source details, sink details, issue id,
\* fix info, message id, filename id, callable id.
NewInstance(w0, entry) ==
  Strict(w0, LAMBDA w :
  [w EXCEPT
     !.frame = [id |-> w.next_id, issue_id |-> Ret(w, 5),
                location |-> SourceLocation(entry),
                filename_id |-> Ret(w, 2), callable_id |-> Ret(w, 1),
                run_id |-> run.id,
                fix_info_id |-> IF Ret(w, 4) = None THEN None ELSE Some(Ret(w, 4)[1].id),
                message_id |-> Ret(w, 3), rank |-> 0,
                min_trace_length_to_sources |->
                  _get_minimum_trace_length(entry.postconditions),
                min_trace_length_to_sinks |->
                  _get_minimum_trace_length(entry.preconditions),
                callable_count |-> _compute_callables_count(entry.callable)],
     !.next_id = @ + 1])

\* one add_issue_instance_shared_text_assoc per member of a set of texts
AssocTexts(g, instance_id, text_ids) ==
  [g EXCEPT !.issue_instance_shared_text_assoc =
              @ (+) SetToBag({<<instance_id, t>> : t \in text_ids})]

\* one add_issue_instance_trace_frame_assoc per element of trace_frames
RECURSIVE AssocFrames(_, _, _)
AssocFrames(g, instance_id, trace_frames) ==
  IF trace_frames = <<>>
  THEN g
  ELSE AssocFrames(add_issue_instance_trace_frame_assoc(g, instance_id, Head(trace_frames)),
                   instance_id, Tail(trace_frames))

\* lines 203-210: sinks, sink details, sources, source details
AssocLeafTexts(w0) ==
  Strict(w0, LAMBDA w :
  [w EXCEPT !.graph =
     AssocTexts(AssocTexts(AssocTexts(AssocTexts(@,
       w.frame.id, Ret(w, 8)), w.frame.id, Ret(w, 6)),
       w.frame.id, Ret(w, 9)), w.frame.id, Ret(w, 7))])

\* lines 212-213
AssocFixInfo(w0) ==
  Strict(w0, LAMBDA w :
  IF Ret(w, 4) = None
  THEN w
  ELSE [w EXCEPT !.graph = add_issue_instance_fix_info(@, w.frame.id, Ret(w, 4)[1])])

\* lines 215-216 attaching the first collected frame only
AttachTraceFrames_First(w0, trace_frames) ==
  Strict(w0, LAMBDA w :
  [w EXCEPT !.graph = AssocFrames(@, w.frame.id,
                                  SubSeq(trace_frames, 1, Min(Len(trace_frames), 1)))])

\* lines 215-216: the frames collected in trace_frames are attached
AttachTraceFrames(w0, trace_frames) ==
  Strict(w0, LAMBDA w :
  [w EXCEPT !.graph = AssocFrames(@, w.frame.id, trace_frames)])

\* line 220, for the feature interned last
AssocFeature(w0) ==
  Strict(w0, LAMBDA w :
  [Drop(w, 1) EXCEPT
     !.graph = add_issue_instance_shared_text_assoc(@, w.frame.id, Ret(w, 1))])

\* lines 218-220: each feature is interned and associated with the instance
RECURSIVE AddFeatures(_, _)
AddFeatures(w, features) ==
  IF features = {}
  THEN w
  ELSE AddFeatures(
         AssocFeature(_get_shared_text(w, "FEATURE", CHOOSE f \in features : TRUE)),
         features \ {CHOOSE f \in features : TRUE})

\* line 222 with the instance added and added again
AddInstance_Twice(w0) ==
  Strict(w0, LAMBDA w :
  [w EXCEPT !.graph = add_issue_instance(add_issue_instance(@, w.frame), w.frame)])

\* line 222
AddInstance(w0) ==
  Strict(w0, LAMBDA w : [w EXCEPT !.graph = add_issue_instance(@, w.frame)])

\* lines 133-135: the feature contents of the issue
IssueFeatures(entry) ==
  UNION {_generate_issue_feature_contents(entry.features[i]) : i \in DOMAIN entry.features}

\* _generate_issue, lines 133-178: up to the interned message
IssueToMessage(w, entry) ==
  _get_shared_text(
  NewFixInfo(
  NewIssue(
  InternAll(
  InternAll(
  InternAll(
  InternAll(w, "SOURCE", Column(entry.initial_sources, 2), {}),
            "SINK", Column(entry.final_sinks, 2), {}),
            "SOURCE_DETAIL", NonEmpty(Column(entry.initial_sources, 1)), {}),
            "SINK_DETAIL", NonEmpty(Column(entry.final_sinks, 1)), {}),
    entry),
    entry),
    "MESSAGE", entry.message)

\* _generate_issue, lines 133-222
_generate_issue(w, entry, trace_frames) ==
  AddInstance(
  AddFeatures(
  AttachTraceFrames(
  AssocFixInfo(
  AssocLeafTexts(
  NewInstance(
  _get_shared_text(
  _get_shared_text(
  IssueToMessage(w, entry),
    "FILENAME", entry.filename),
    "CALLABLE", entry.callable),
    entry))),
    trace_frames),
    IssueFeatures(entry)))

\* the distance to the next issue of the loop of lines 68-69: 1, or 2 when two
\* workers take the issues in turn
Stride == IF parked = None THEN 1 ELSE 2

FinishIssue ==
  /\ stack # <<>> /\ Top.op = "issue" /\ Top.todo = <<>>
  /\ ~Lacks(Issues[idx], IssueFields)
  /\ SetWorld(_generate_issue(World, Issues[idx], Top.trace_frames))
  /\ stack' = <<>>
  /\ idx' = idx + Stride
  /\ UNCHANGED <<prior, parked, issue_sel, store_unused_models, pool_sel, trace_entries, visited_frames,
                 missing_traces, run, pc, pop_log, lookup_log>>

(***************************************************************************)
(* The end of run(): lines 71-76.                                          *)
(***************************************************************************)
\* the worker that is not running has no issue left
Joined ==
  IF parked = None THEN TRUE
  ELSE parked[1].stack = <<>> /\ parked[1].idx > Len(Issues)

IssuesDone == pc = "issues" /\ stack = <<>> /\ idx > Len(Issues) /\ Joined

\* the keys the loop of lines 72-73 iterates over
UnusedKeys == UNION {{<<k, key>> : key \in DOMAIN trace_entries[k]} : k \in TraceKind}

\* lines 71-76: store_unused_models not set, or nothing left to store
RunReturn ==
  /\ IssuesDone
  /\ \E flag \in BOOLEAN :
       /\ ~flag \/ UnusedKeys = {}
       /\ store_unused_models' = Some(flag)
  /\ pc' = "returned"
  /\ UNCHANGED <<prior, parked, issue_sel, pool_sel, trace_entries, graph, next_id,
                 visited_frames, missing_traces, big_tito, run, idx, stack, made,
                 pop_log, lookup_log, interned>>

\* lines 72-74: iterating the dict "traces" yields its keys (caller, port), so
\* entry is the port string and entry["callee_location"] raises TypeError
StoreUnusedModels ==
  /\ IssuesDone
  /\ UnusedKeys # {}
  /\ store_unused_models' = Some(TRUE)
  /\ pc' = "raised"
  /\ UNCHANGED <<prior, parked, issue_sel, pool_sel, trace_entries, graph, next_id,
                 visited_frames, missing_traces, big_tito, run, idx, stack, made,
                 pop_log, lookup_log, interned>>

Next ==
  \/ StartIssue
  \/ GenerateIssueTraces
  \/ GenerateTraceAnnotation
  \/ GenerateAnnotationPrecondition
  \/ AnnotationsDone
  \/ TransitiveSkip
  \/ TransitiveFromGraph
  \/ TransitiveFromPool
  \/ GenerateTraceFrame
  \/ PopulateDone
  \/ TransitiveDone
  \/ FinishIssue
  \/ RunReturn
  \/ StoreUnusedModels

Spec == Init /\ [][Next]_vars

(***************************************************************************)
(* run() on an input with malformed records: a subscript of a missing      *)
(* field raises KeyError, which no caller catches.                         *)
(***************************************************************************)
\* line 65: _compute_callables_count subscripts issue["callable"] of every issue
ComputeCallablesCount ==
  /\ pc = "start"
  /\ pc' = IF \E i \in DOMAIN Issues : "callable" \notin DOMAIN Issues[i]
           THEN "failed" ELSE "issues"
  /\ UNCHANGED <<prior, parked, issue_sel, store_unused_models, pool_sel, trace_entries, graph, next_id,
                 visited_frames, missing_traces, big_tito, run, idx, stack, made,
                 pop_log, lookup_log, interned>>

\* issue["filename"] raises at line 246, before the issue's first frame, or, for
\* an issue without edges, at line 180, after the Issue record and the message
IssueKeyError ==
  /\ stack # <<>> /\ Top.op = "issue"
  /\ "filename" \notin DOMAIN Issues[idx]
  /\ IF Top.todo # <<>>
     THEN UNCHANGED <<graph, next_id, big_tito, made, interned>>
     ELSE SetWorld(IssueToMessage(World, Issues[idx]))
  /\ pc' = "failed"
  /\ stack' = <<>>
  /\ UNCHANGED <<prior, parked, issue_sel, store_unused_models, pool_sel, trace_entries, visited_frames,
                 missing_traces, run, idx, pop_log, lookup_log>>

\* _generate_trace_frame, lines 327-328: a popped fragment lacks a field
TraceFrameKeyError ==
  /\ stack # <<>> /\ Top.op = "populate" /\ Top.entries # <<>>
  /\ Lacks(FragU[Head(Top.entries)], FragmentFields)
  /\ pc' = "failed"
  /\ stack' = <<>>
  /\ UNCHANGED <<prior, parked, issue_sel, store_unused_models, pool_sel, trace_entries, graph, next_id,
                 visited_frames, missing_traces, big_tito, run, idx, made,
                 pop_log, lookup_log, interned>>

(***************************************************************************)
(* run() called again, by a new ModelGenerator, on the same pools and the  *)
(* same issues in another order.                                           *)
(***************************************************************************)
\* the text of a SharedText id
Text(id) == get_text(graph, id)

\* what run() produced, with ids replaced by the texts they stand for: the
\* frames with their leaves, the fragments left in the pools, the diagnostics
Result ==
  [frames |-> {<<F.kind, Text(F.caller_id), F.caller_port,
                 Text(F.callee_id), F.callee_port,
                 {<<Text(a[2]), a[3]>> :
                    a \in {b \in BagToSet(graph.trace_frame_leaf_assoc) : b[1] = F.id}}>> :
                 F \in Range(graph.trace_frames)},
   unconsumed |-> UNION {UNION {Range(trace_entries[k][key]) :
                                  key \in DOMAIN trace_entries[k]} : k \in TraceKind},
   missing_traces |-> missing_traces,
   big_tito |-> big_tito]

\* the orderings of a list
Orderings(s) ==
  {[i \in DOMAIN s |-> s[f[i]]] :
     f \in {g \in [DOMAIN s -> DOMAIN s] : \A i, j \in DOMAIN s : g[i] = g[j] => i = j}}

\* run() has returned: the result is kept and run() starts again (lines 49-66)
\* on another ordering of input["issues"]
RunReordered ==
  /\ pc = "returned" /\ prior = None
  /\ prior' = Some(Result)
  /\ issue_sel' \in Orderings(issue_sel) \ {issue_sel}
  /\ store_unused_models' = None
  /\ trace_entries' = [k \in TraceKind |-> PoolOf(pool_sel, k)]
  /\ graph' = EmptyGraph
  /\ next_id' = 2
  /\ visited_frames' = <<>>
  /\ missing_traces' = [k \in TraceKind |-> {}]
  /\ big_tito' = {}
  /\ pc' = "issues"
  /\ idx' = 1
  /\ made' = <<>>
  /\ pop_log' = {}
  /\ lookup_log' = {}
  /\ interned' = {}
  /\ UNCHANGED <<pool_sel, run, stack, parked>>

NextReordered ==
  \/ Next
  \/ RunReordered

SpecReordered == Init /\ [][NextReordered]_vars

(***************************************************************************)
(* The loop over the issues (lines 68-69) run by two workers that take the *)
(* issues in turn and share the ModelGenerator: its graph, pools,          *)
(* visited_frames and summary.  A worker's step is one action of run();    *)
(* the steps of the two workers interleave in any order.                   *)
(***************************************************************************)
MaxParallelPool == 1

InitParallel ==
  /\ issue_sel \in {s \in IssueSeqs : Len(s) = 2}
  /\ pool_sel \in {S \in PoolSels : Cardinality(S) <= MaxParallelPool}
  /\ prior = None
  /\ parked = Some([idx |-> 2, stack |-> <<>>])
  /\ RunAt("issues")

\* the other worker takes the next step
Switch ==
  /\ parked # None /\ ~Joined
  /\ pc = "issues"
  /\ parked' = Some([idx |-> idx, stack |-> stack])
  /\ idx' = parked[1].idx
  /\ stack' = parked[1].stack
  /\ UNCHANGED <<prior, issue_sel, store_unused_models, pool_sel, trace_entries, graph,
                 next_id, visited_frames, missing_traces, big_tito, run, pc, made,
                 pop_log, lookup_log, interned>>

NextParallel ==
  \/ Next
  \/ Switch

SpecParallel == InitParallel /\ [][NextParallel]_vars

NextMalformed ==
  \/ Next
  \/ ComputeCallablesCount
  \/ IssueKeyError
  \/ TraceFrameKeyError

SpecMalformed == InitMalformed /\ [][NextMalformed]_vars

SpecLongCaller == InitLongCaller /\ [][Next]_vars

\* run() is one sequential computation: it keeps taking its next step
FairSpec == Spec /\ WF_vars(Next)

RunEnded == pc \in {"returned", "raised", "failed"}



(***************************************************************************)
(* Vocabulary of the properties.                                           *)
(***************************************************************************)
Frames == Range(graph.trace_frames)
Returned == pc = "returned"
LeafIds(frame_id) == get_trace_frame_leaf_ids(graph, frame_id)
Visited(frame_id) ==
  IF frame_id \in DOMAIN visited_frames THEN visited_frames[frame_id] ELSE {}
\* the fragments of the input pools materialized so far, one per TraceFrame made
PoolMade == {i \in DOMAIN made : made[i].origin.src = "pool"}
\* the fragments still filed in the pools
Pooled == UNION {UNION {Range(trace_entries[k][key]) : key \in DOMAIN trace_entries[k]} :
                   k \in TraceKind}
\* G is a frame filed under the callee and callee port of F
Follows(F, G) ==
  G.kind = F.kind /\ G.caller_id = F.callee_id /\ G.caller_port = F.callee_port
\* the raw record a frame was built from
Origin(frame_id) == made[CHOOSE m \in DOMAIN made : made[m].frame = frame_id].origin
\* the frame starts an expansion: it is the first hop of an issue's edge or of a
\* precondition nested in an annotation
IsStart(frame_id) == Origin(frame_id).src \in {"issue", "annotation"}
\* the CallInfo of an issue's edge
CallInfoOf(o) ==
  IF o.kind = PRECONDITION
  THEN IssueU[issue_sel[o.issue]].preconditions[o.pos]
  ELSE IssueU[issue_sel[o.issue]].postconditions[o.pos]
\* the raw TITO positions of the record a frame was built from
RawTitosOf(o) ==
  IF o.src = "issue" THEN Get(CallInfoOf(o), "titos", <<>>)
  ELSE IF o.src = "pool" THEN Get(FragU[o.fragment], "titos", <<>>)
  ELSE <<>>
\* the raw (leaf name, depth) pairs of the record a frame was built from
RawLeavesOf(o, kind) ==
  IF o.src = "issue" THEN CallInfoOf(o).leaves
  ELSE IF o.src = "annotation"
  THEN <<<<o.annotation.leaf_kind, o.annotation.leaf_depth>>>>
  ELSE IF "leaves" \in DOMAIN FragU[o.fragment] /\ FragU[o.fragment].leaves # <<>>
  THEN FragU[o.fragment].leaves
  ELSE IF kind = POSTCONDITION THEN FragU[o.fragment].sources
  ELSE FragU[o.fragment].sinks
\* the id of the interned leaf text of a frame of this kind, if any
LeafTextId(kind, name) ==
  get_shared_text(graph, IF kind = POSTCONDITION THEN "SOURCE" ELSE "SINK",
                  SubSeq(name, 1, Min(Len(name), SHARED_TEXT_LENGTH)))
\* the ports _get_or_populate_trace_frames must not report as missing
LeafPort(port) ==
  \/ port \in {PortLeaf, PortSource, PortSink}
  \/ StartsWith(port, <<"a", "n", "c", "h", "o", "r", ":">>)
  \/ StartsWith(port, <<"p", "r", "o", "d", "u", "c", "e", "r", ":">>)

(***************************************************************************)
(* C1: for every finite input, cyclic pools included, every transitive     *)
(* expansion empties its worklist and run() returns: every behaviour       *)
(* reaches the state where run() has returned, with an empty call stack.   *)
(***************************************************************************)
C1_RunReturns == <>(Returned /\ stack = <<>>)

\* what holds instead: every expansion empties its worklist and run() ends; it
\* returns unless store_unused_models is set
C1_Termination ==
  <>(/\ RunEnded /\ stack = <<>>
     /\ Returned \/ store_unused_models = Some(TRUE))

\* run() raised after every expansion emptied its worklist, one of them through
\* a fragment of the pool
C1_Raised ==
  /\ pc = "raised" /\ stack = <<>>
  /\ \E F \in Frames : ~IsStart(F.id) /\ Visited(F.id) # {}

(***************************************************************************)
(* C2: when run() returns the graph is closed under leaf-relevant          *)
(* reachability: for every frame F and leaf l in visited_frames[F], every  *)
(* fragment the input pool filed under (text of F.callee, F.callee_port)   *)
(* is a TraceFrame, and every frame G filed under F's callee whose leaves  *)
(* contain l has l in visited_frames[G].                                   *)
(***************************************************************************)
C2_Closure ==
  Returned =>
    \A F \in Frames : \A l \in Visited(F.id) :
      /\ \A i \in pool_sel :
           (FragU[i].kind = F.kind
            /\ KeyOf(i) = <<get_text(graph, F.callee_id), F.callee_port>>)
           => \E m \in PoolMade : made[m].origin.fragment = i
      /\ \A G \in Frames :
           (Follows(F, G) /\ l \in LeafIds(G.id)) => l \in Visited(G.id)

(***************************************************************************)
(* C3: every raw fragment of the trace pool is consumed into exactly one   *)
(* TraceFrame: no fragment is materialized twice, a fragment is either     *)
(* still filed in its pool or, once the lookup that popped it is over,     *)
(* the origin of exactly one frame, and a pop of a key after the first     *)
(* pop of that key returns no fragments.                                   *)
(***************************************************************************)
C3_ConsumedOnce ==
  /\ \A m, n \in PoolMade :
       made[m].origin.fragment = made[n].origin.fragment => m = n
  /\ \A m \in PoolMade : made[m].origin.fragment \notin Pooled
  /\ stack = <<>> =>
       \A i \in pool_sel :
         i \in Pooled \/ \E m \in PoolMade : made[m].origin.fragment = i
  /\ \A p \in pop_log : ~p.first => p.entries = <<>>

\* run() returned after a key with fragments was popped and looked up again
C3_Witness ==
  /\ Returned
  /\ \E p \in pop_log : \E r \in lookup_log :
       /\ p.entries # <<>>
       /\ r.kind = p.kind /\ r.key = p.key /\ r.from = "graph"

(***************************************************************************)
(* C4: two raw issue records of one run with the same handle map to the    *)
(* same Issue: when run() has returned the graph holds exactly one Issue   *)
(* per distinct (code, handle) of the input, and the instances of records  *)
(* with the same code and handle refer to the same Issue.                  *)
(***************************************************************************)
C4_OneIssuePerHandle ==
  Returned =>
    /\ Len(graph.issues) =
         Cardinality({<<Issues[i].code, Issues[i].handle>> : i \in DOMAIN Issues})
    /\ \A i, j \in DOMAIN graph.issue_instances :
         (Issues[i].code = Issues[j].code /\ Issues[i].handle = Issues[j].handle)
         => graph.issue_instances[i].issue_id = graph.issue_instances[j].issue_id

(***************************************************************************)
(* C5: every TraceFrame produced while an issue is processed, first-hop    *)
(* and transitive alike, is attached to the issue's IssueInstance by       *)
(* add_issue_instance_trace_frame_assoc.  The k-th instance of the graph   *)
(* is the instance of the k-th issue.                                      *)
(***************************************************************************)
C5_AllFramesAttached ==
  \A k \in DOMAIN graph.issue_instances : \A m \in DOMAIN made :
    made[m].issue = k =>
      CopiesIn(<<graph.issue_instances[k].id, made[m].frame>>,
               graph.issue_instance_trace_frame_assoc) >= 1

(***************************************************************************)
(* C5, as the code has it: the frames attached to an issue's instance are  *)
(* the first-hop frames of the issue's own precondition and postcondition  *)
(* edges, each attached once; the frames made from pool fragments and for  *)
(* annotations are attached to no instance.                                *)
(***************************************************************************)
C5_FirstHopFramesAttached ==
  /\ \A a \in BagToSet(graph.issue_instance_trace_frame_assoc) :
       \E k \in DOMAIN graph.issue_instances : a[1] = graph.issue_instances[k].id
  /\ \A k \in DOMAIN graph.issue_instances : \A m \in DOMAIN made :
       CopiesIn(<<graph.issue_instances[k].id, made[m].frame>>,
                graph.issue_instance_trace_frame_assoc)
         = IF made[m].issue = k /\ made[m].origin.src = "issue" THEN 1 ELSE 0

\* run() returned; an issue's first-hop frame is attached to its instance and a
\* frame the issue's expansion made from a pool fragment is not
C5_Witness ==
  /\ Returned
  /\ \E k \in DOMAIN graph.issue_instances : \E m, n \in DOMAIN made :
       /\ made[m].issue = k /\ made[m].origin.src = "issue"
       /\ made[n].issue = k /\ made[n].origin.src = "pool"
       /\ <<graph.issue_instances[k].id, made[m].frame>>
            \in BagToSet(graph.issue_instance_trace_frame_assoc)
       /\ <<graph.issue_instances[k].id, made[n].frame>>
            \notin BagToSet(graph.issue_instance_trace_frame_assoc)

(***************************************************************************)
(* C6: when expansion reaches a frame whose (callee, callee_port) has no   *)
(* frame in the graph and no fragment in the pool of its kind, and the     *)
(* port is not a leaf port, missing_traces[kind] holds exactly one entry   *)
(* (callee text, port), however often the key is reached.  The entry is    *)
(* there as soon as the lookup has returned.                               *)
(***************************************************************************)
C6_MissingRecordedOnce ==
  \A r \in lookup_log :
    (r.from = "pool" /\ r.found = 0 /\ ~LeafPort(r.key[2]))
    => \/ \E i \in DOMAIN stack :
            stack[i].op = "populate" /\ stack[i].kind = r.kind /\ stack[i].key = r.key
       \/ Cardinality({key \in missing_traces[r.kind] : key = r.key}) = 1

\* run() returned after two frames reached the same key, which has no frames, no
\* fragments and no leaf port
C6_Witness ==
  /\ Returned
  /\ \E r, q \in lookup_log :
       /\ r.frame # q.frame /\ r.kind = q.kind /\ r.key = q.key
       /\ r.from = "pool" /\ r.found = 0 /\ q.from = "pool" /\ q.found = 0
       /\ ~LeafPort(r.key[2])
       /\ r.key \in missing_traces[r.kind]

(***************************************************************************)
(* C7: in every reachable state no entry of missing_traces has a leaf      *)
(* port: "leaf", "source", "sink", or a port starting with "anchor:" or    *)
(* "producer:".                                                            *)
(***************************************************************************)
C7_NoLeafPortMissing ==
  \A kind \in TraceKind : \A key \in missing_traces[kind] : ~LeafPort(key[2])

\* run() returned after lookups that found nothing under a port "sink" or
\* "source", under a port "anchor:..." and under a port "producer:..."
C7_Witness ==
  /\ Returned
  /\ \E r \in lookup_log :
       r.found = 0 /\ r.key[2] \in {PortLeaf, PortSource, PortSink}
  /\ \E r \in lookup_log :
       r.found = 0 /\ StartsWith(r.key[2], <<"p", "r", "o", "d", "u", "c", "e", "r", ":">>)

(***************************************************************************)
(* C8: leaf-set pruning.  A frame is expanded only with leaves of its own  *)
(* that a frame calling it passed on: if a first-hop frame carries {S1}    *)
(* and the only fragment filed under its callee and port relates to S2     *)
(* only, the downstream frame is never expanded: no lookup is made for     *)
(* its callee and port, it gets no visited_frames entry, and no missing    *)
(* trace is recorded without a lookup.                                     *)
(***************************************************************************)
C8_LeafSetPruning ==
  /\ \A f \in DOMAIN visited_frames :
       /\ visited_frames[f] # {}
       /\ \A l \in visited_frames[f] :
            /\ l \in LeafIds(f)
            /\ \/ IsStart(f)
               \/ \E F \in Frames : Follows(F, FrameOf(graph, f)) /\ l \in Visited(F.id)
  /\ \A r \in lookup_log :
       r.leaves # {} /\ r.leaves \subseteq Visited(r.frame)
  /\ \A G \in Frames :
       (/\ ~IsStart(G.id)
        /\ \A F \in Frames : Follows(F, G) => Visited(F.id) \cap LeafIds(G.id) = {})
       => /\ G.id \notin DOMAIN visited_frames
          /\ \A r \in lookup_log : r.frame # G.id
  /\ \A kind \in TraceKind : \A key \in missing_traces[kind] :
       \E r \in lookup_log :
         r.kind = kind /\ r.key = key /\ r.found = 0 /\ r.frame \in DOMAIN visited_frames

\* run() returned; a first-hop frame was expanded with its one leaf, the one
\* frame filed under its callee carries another leaf only and was not expanded,
\* and its callee, which has no frames and no leaf port, is not in missing_traces
C8_Witness ==
  /\ Returned
  /\ \E F, G \in Frames :
       /\ Origin(F.id).src = "issue" /\ Cardinality(LeafIds(F.id)) = 1
       /\ Visited(F.id) = LeafIds(F.id)
       /\ Follows(F, G) /\ \A H \in Frames : Follows(F, H) => H = G
       /\ LeafIds(G.id) # {} /\ LeafIds(G.id) \cap LeafIds(F.id) = {}
       /\ ~LeafPort(G.callee_port)
       /\ ~\E H \in Frames : Follows(G, H)
       /\ G.id \notin DOMAIN visited_frames
       /\ \A r \in lookup_log : r.frame # G.id
       /\ \A kind \in TraceKind : \A key \in missing_traces[kind] :
            key # <<get_text(graph, G.callee_id), G.callee_port>>

(***************************************************************************)
(* C9: on a cyclic pool expansion creates no duplicate (frame, leaf)       *)
(* association: the leaf associations of a frame are those inserted when   *)
(* the frame was materialized, one per leaf entry of the raw record it was *)
(* built from, and revisiting the frame through the cycle inserts nothing. *)
(***************************************************************************)
C9_LeafAssocOnlyAtMaterialization ==
  /\ \A a \in BagToSet(graph.trace_frame_leaf_assoc) :
       \E F \in Frames : a[1] = F.id
  /\ \A F \in Frames : \A raw \in {RawLeavesOf(Origin(F.id), F.kind)} :
       /\ \A a \in BagToSet(graph.trace_frame_leaf_assoc) :
            a[1] = F.id =>
              CopiesIn(a, graph.trace_frame_leaf_assoc) =
                Cardinality({i \in DOMAIN raw :
                               /\ LeafTextId(F.kind, raw[i][1]) = Some(a[2])
                               /\ raw[i][2] = a[3]})
       /\ \A i \in DOMAIN raw :
            \E a \in BagToSet(graph.trace_frame_leaf_assoc) :
              /\ a[1] = F.id /\ a[3] = raw[i][2]
              /\ LeafTextId(F.kind, raw[i][1]) = Some(a[2])

\* run() returned after an expansion went round a cycle: F and G call each
\* other, both were expanded, and the lookup for G's callee found F in the
\* graph with the leaves already recorded for F
C9_Witness ==
  /\ Returned
  /\ \E F, G \in Frames :
       /\ ~IsStart(F.id) /\ ~IsStart(G.id)
       /\ Follows(F, G) /\ Follows(G, F)
       /\ \E r \in lookup_log :
            /\ r.frame = G.id /\ r.from = "graph"
            /\ r.leaves \cap LeafIds(F.id) # {}
            /\ r.leaves \cap LeafIds(F.id) \subseteq Visited(F.id)

(***************************************************************************)
(* C10: every TraceFrame of the graph has at most 200 TITO positions: a    *)
(* frame built from a raw entry with more than 200 positions stores the    *)
(* first 200 of them in input order, and a raw entry with at most 200 is   *)
(* stored unchanged.                                                       *)
(***************************************************************************)
C10_TitoCap ==
  \A F \in Frames : \A raw \in {RawTitosOf(Origin(F.id))} :
    /\ Len(F.titos) <= MaxTitos
    /\ Len(F.titos) = IF Len(raw) > MaxTitos THEN MaxTitos ELSE Len(raw)
    /\ \A i \in 1..Len(F.titos) :
         F.titos[i] = <<raw[i].line, raw[i].start, raw[i].end>>

\* run() returned with a frame built from more than 200 raw positions and a frame
\* built from at least one and at most 200
C10_Witness ==
  /\ Returned
  /\ \E F, G \in Frames :
       /\ Len(RawTitosOf(Origin(F.id))) > MaxTitos /\ Len(F.titos) = MaxTitos
       /\ Len(RawTitosOf(Origin(G.id))) \in 1..MaxTitos
       /\ Len(G.titos) = Len(RawTitosOf(Origin(G.id)))
(***************************************************************************)
(* C11: big_tito holds (filename, callable, n) exactly when a raw entry    *)
(* made into a frame, an issue's edge or a pool fragment, with that        *)
(* filename and caller had n > 200 TITO positions.  The entry is there     *)
(* once however many entries overflow with the same triple, and the frame  *)
(* of the overflowing entry is still made, with 200 positions.             *)
(***************************************************************************)
\* the filename and caller _generate_tito is called with for a raw record
TitoKeyOf(o) ==
  IF o.src = "issue"
  THEN <<IssueU[issue_sel[o.issue]].filename, IssueU[issue_sel[o.issue]].callable>>
  ELSE <<FragU[o.fragment].filename, FragU[o.fragment].caller>>
\* the raw records made into frames whose tito list is longer than the cap
Oversized ==
  {m \in DOMAIN made : /\ made[m].origin.src \in {"issue", "pool"}
                       /\ Len(RawTitosOf(made[m].origin)) > MaxTitos}

C11_BigTitoRecorded ==
  /\ big_tito = {<<TitoKeyOf(made[m].origin)[1], TitoKeyOf(made[m].origin)[2],
                   Len(RawTitosOf(made[m].origin))>> : m \in Oversized}
  /\ \A m \in Oversized :
       /\ Cardinality({b \in big_tito :
                         /\ b[1] = TitoKeyOf(made[m].origin)[1]
                         /\ b[2] = TitoKeyOf(made[m].origin)[2]
                         /\ b[3] = Len(RawTitosOf(made[m].origin))}) = 1
       /\ \E F \in Frames : F.id = made[m].frame /\ Len(F.titos) = MaxTitos

\* run() returned after two raw entries overflowed with the same filename,
\* caller and count, and a third with another triple
C11_Witness ==
  /\ Returned
  /\ \E m, n \in Oversized :
       /\ m # n
       /\ TitoKeyOf(made[m].origin) = TitoKeyOf(made[n].origin)
       /\ Len(RawTitosOf(made[m].origin)) = Len(RawTitosOf(made[n].origin))
  /\ Cardinality(big_tito) = 2
(***************************************************************************)
(* C12: interning is idempotent and keyed by kind: of the calls of         *)
(* _get_shared_text made so far, two with the same kind and content        *)
(* returned the same SharedText id and the graph holds one record for     *)
(* them, and two with different kinds returned different ids.              *)
(***************************************************************************)
C12_InterningIdempotent ==
  /\ \A a, b \in interned :
       /\ (a.kind = b.kind /\ a.name = b.name) => a.id = b.id
       /\ a.kind # b.kind => a.id # b.id
  /\ \A a \in interned :
       /\ Cardinality({i \in DOMAIN graph.shared_texts :
                         /\ graph.shared_texts[i].kind = a.kind
                         /\ graph.shared_texts[i].contents
                              = SubSeq(a.name, 1, Min(Len(a.name), SHARED_TEXT_LENGTH))}) = 1
       /\ Cardinality({i \in DOMAIN graph.shared_texts :
                         graph.shared_texts[i].id = a.id}) = 1

\* run() returned after one content was interned under two kinds, and after the
\* caller of two frames was interned by two calls that returned one id
C12_Witness ==
  /\ Returned
  /\ \E a, b \in interned : a.name = b.name /\ a.kind # b.kind
  /\ \E F, G \in Frames :
       /\ F.id # G.id /\ F.caller_id = G.caller_id
       /\ \E a \in interned : a.kind = "CALLABLE" /\ a.id = F.caller_id
(***************************************************************************)
(* C13: content is truncated to SHARED_TEXT_LENGTH characters before       *)
(* keying: two calls of _get_shared_text of one kind whose contents agree  *)
(* on their first SHARED_TEXT_LENGTH characters returned the same id, and  *)
(* the content stored in every SharedText record is at most                *)
(* SHARED_TEXT_LENGTH characters long.                                     *)
(***************************************************************************)
\* the first SHARED_TEXT_LENGTH characters of a content
Prefix(name) == SubSeq(name, 1, Min(Len(name), SHARED_TEXT_LENGTH))
\* the calls made so far: kind, truncated content, returned id
InternedKeys == {<<a.kind, Prefix(a.name), a.id>> : a \in interned}

C13_TruncatedBeforeKeying ==
  /\ \A keys \in {InternedKeys} :
       /\ \A x, y \in keys : (x[1] = y[1] /\ x[2] = y[2]) => x[3] = y[3]
       /\ \A x \in keys : \E i \in DOMAIN graph.shared_texts :
            /\ graph.shared_texts[i].id = x[3]
            /\ graph.shared_texts[i].contents = x[2]
  /\ \A i \in DOMAIN graph.shared_texts :
       Len(graph.shared_texts[i].contents) <= SHARED_TEXT_LENGTH

\* run() returned after two different contents longer than SHARED_TEXT_LENGTH
\* with the same first SHARED_TEXT_LENGTH characters were interned under one kind
C13_Witness ==
  /\ Returned
  /\ \E a, b \in interned :
       /\ a.kind = b.kind /\ a.name # b.name /\ a.id = b.id
       /\ Len(a.name) > SHARED_TEXT_LENGTH /\ Len(b.name) > SHARED_TEXT_LENGTH
(***************************************************************************)
(* C14: a raw issue record or a raw trace-edge record that lacks a         *)
(* required field makes the whole run fail: on an input with such a        *)
(* record, wherever it stands and whether or not an expansion reaches it,  *)
(* run() never returns a graph.                                            *)
(***************************************************************************)
C14_MalformedNeverReturns == ~Returned

\* what holds instead: run() returns only if every issue record is well formed
\* and every malformed fragment is still filed in its pool, never popped
C14_ReturnsOnlyIfUnread ==
  Returned =>
    /\ \A i \in DOMAIN Issues : ~Lacks(Issues[i], IssueFields)
    /\ \A i \in pool_sel : Lacks(FragU[i], FragmentFields) => i \in Pooled

\* run() failed in the expansion of its second issue, on a malformed fragment
\* popped from the pool, after the first issue was added to the graph
C14_Failed ==
  /\ pc = "failed"
  /\ Len(graph.issue_instances) = 1 /\ idx = 2
  /\ \E p \in pop_log : \E i \in Range(p.entries) : Lacks(FragU[i], FragmentFields)
(***************************************************************************)
(* C15: a missing trace is a diagnostic and not a failure: once a key is   *)
(* recorded in missing_traces, run() goes on to process every issue of     *)
(* the input and returns the graph and the summary.                        *)
(***************************************************************************)
MissingRecorded == \E k \in TraceKind : missing_traces[k] # {}

C15_MissingThenReturns ==
  MissingRecorded ~> (Returned /\ Len(graph.issue_instances) = Len(Issues))

\* what holds instead: once a key is recorded, every issue is still processed and
\* run() ends; it returns unless store_unused_models is set
C15_MissingThenEnds ==
  MissingRecorded ~> (/\ RunEnded /\ stack = <<>>
                      /\ Len(graph.issue_instances) = Len(Issues)
                      /\ Returned \/ store_unused_models = Some(TRUE))

\* the step that records a key returns to the expansion that made the lookup,
\* which keeps the worklist items it had
C15_ExpansionContinues ==
  [][missing_traces' # missing_traces =>
       /\ pc' = pc
       /\ Len(stack') = Len(stack) - 1
       /\ stack'[Len(stack')].op = "transitive"
       /\ stack'[Len(stack')].queue = stack[Len(stack) - 1].queue]_vars

\* run() raised after it processed both issues of its input, the first of which
\* recorded a missing trace
C15_Raised ==
  /\ pc = "raised" /\ stack = <<>>
  /\ Len(Issues) = 2 /\ Len(graph.issue_instances) = 2
  /\ \E r \in lookup_log : \E m \in DOMAIN made :
       /\ made[m].frame = r.frame /\ made[m].issue = 1
       /\ r.from = "pool" /\ r.found = 0
       /\ r.key \in missing_traces[r.kind]
(***************************************************************************)
(* C16: end to end.  For one issue with code 5009, handle "h1", callable   *)
(* "mod.foo", one precondition edge to callee "mod.sink" port "sink"       *)
(* carrying the leaf ("Sql", 1), final_sinks = [("Sql", "Sink", 1)] and    *)
(* empty pools, run() yields one Issue with code 5009, one IssueInstance   *)
(* with min_trace_length_to_sinks = 1, exactly one TraceFrame              *)
(* (PRECONDITION, "mod.foo", "root", "mod.sink", "sink") with one leaf     *)
(* association, to SharedText(SINK, "Sql") at depth 1, no missing trace    *)
(* and no big tito.                                                        *)
(***************************************************************************)
EndToEndRun == issue_sel = <<EndToEnd>> /\ pool_sel = {}

C17_OrderInsignificant ==
  (Returned /\ prior # None) => Result = prior[1]

\* what holds instead: the order is not significant when no fragment of the pools
\* calls a port "root", the port of the first-hop frames
C17_OrderInsignificantWithoutRoot ==
  (Returned /\ prior # None /\ \A i \in pool_sel : FragU[i].callee_port # PortRoot)
    => Result = prior[1]

\* run() returned on two orderings of two issues, both of which expanded through
\* fragments of the pool, with the same result
C17_SameResult ==
  /\ Returned /\ prior # None /\ Result = prior[1]
  /\ \A k \in DOMAIN Issues : \E m \in PoolMade : made[m].issue = k

\* the stack of the worker that is not running
ParkedStack == IF parked = None THEN <<>> ELSE parked[1].stack
\* the fragments a lookup popped and has not materialized yet
Waiting(stk) ==
  UNION {Range(stk[i].entries) : i \in {j \in DOMAIN stk : stk[j].op = "populate"}}
\* the fragments of the input pools filed under a key
FiledUnder(kind, key) == {i \in pool_sel : FragU[i].kind = kind /\ KeyOf(i) = key}

C19_NoMissingForPooledKey ==
  \A kind \in TraceKind : \A key \in missing_traces[kind] :
    FiledUnder(kind, key) = {}

(***************************************************************************)
(* C19, amended: issues processed in parallel can record a missing trace   *)
(* for a key under which the pool filed fragments.  A key is recorded only *)
(* when its port is not a leaf port and a lookup of the key popped         *)
(* nothing; the fragments filed under it were then all returned, together, *)
(* by the one pop of the key that came first, and when run() returns each  *)
(* of them is a TraceFrame.                                                *)
(***************************************************************************)
C19_MissingOnlyAfterPop ==
  \A kind \in TraceKind : \A key \in missing_traces[kind] :
    /\ ~LeafPort(key[2])
    /\ \E r \in lookup_log :
         r.kind = kind /\ r.key = key /\ r.from = "pool" /\ r.found = 0
    /\ \A i \in FiledUnder(kind, key) :
         /\ \E p \in pop_log :
              /\ p.kind = kind /\ p.key = key /\ p.first
              /\ Range(p.entries) = FiledUnder(kind, key)
         /\ Returned => \E m \in PoolMade : made[m].origin.fragment = i

\* run() returned with a key in missing_traces under which the pool filed
\* fragments: a worker reached the key after the other had popped it
C19_Witness ==
  /\ Returned
  /\ \E kind \in TraceKind : \E key \in missing_traces[kind] :
       FiledUnder(kind, key) # {}

\* the leaf set of a frame: (kind of the leaf text, its contents, depth)
SharedText(id) == CHOOSE t \in Range(graph.shared_texts) : t.id = id
FrameLeaves(frame_id) ==
  {<<SharedText(a[2]).kind, SharedText(a[2]).contents, a[3]>> :
     a \in {b \in BagToSet(graph.trace_frame_leaf_assoc) : b[1] = frame_id}}
\* the kind of the leaf texts of a frame
LeafKind(kind) == IF kind = POSTCONDITION THEN "SOURCE" ELSE "SINK"
\* caller_port, caller and filename of the first-hop frame made from an edge of
\* an issue
FirstHopOfIssue(m) ==
  LET F == FrameOf(graph, made[m].frame)
      issue == Issues[made[m].origin.issue]
  IN  /\ F.kind = made[m].origin.kind
      /\ F.caller_port = PortRoot
      /\ get_text(graph, F.caller_id) = Prefix(issue.callable)
      /\ get_text(graph, F.filename_id) = Prefix(issue.filename)
\* the frames made from the issues' own edges
FirstHops == {m \in DOMAIN made : made[m].origin.src = "issue"}

(***************************************************************************)
(* C20 as stated: each first-hop frame made from an issue's own            *)
(* precondition or postcondition edge has caller_port "root", the issue's  *)
(* callable as caller, the issue's filename, and a leaf set equal to the   *)
(* issue's final_sinks (precondition) or initial_sources (postcondition),  *)
(* each a (name, kind, depth) triple, whichever of name and kind is taken  *)
(* as the frame's leaf.                                                    *)
(***************************************************************************)
C20_FirstHopLeavesOfIssue ==
  \A m \in FirstHops :
    LET issue == Issues[made[m].origin.issue]
        kind == made[m].origin.kind
        triples == IF kind = PRECONDITION THEN issue.final_sinks
                   ELSE issue.initial_sources
    IN  /\ FirstHopOfIssue(m)
        /\ \E part \in {1, 2} :
             FrameLeaves(made[m].frame) =
               {<<LeafKind(kind), Prefix(triples[k][part]), triples[k][3]>> :
                  k \in DOMAIN triples}

(***************************************************************************)
(* C20, amended: each first-hop frame made from an issue's own edge has    *)
(* caller_port "root", the issue's callable as caller, the issue's         *)
(* filename, and a leaf set equal to the edge's own leaves, each a (leaf,  *)
(* depth) pair interned as SINK for a precondition edge and as SOURCE for  *)
(* a postcondition edge.                                                   *)
(***************************************************************************)
C20_FirstHopLeavesOfEdge ==
  \A m \in FirstHops :
    LET kind == made[m].origin.kind
        leaves == CallInfoOf(made[m].origin).leaves
    IN  /\ FirstHopOfIssue(m)
        /\ FrameLeaves(made[m].frame) =
             {<<LeafKind(kind), Prefix(leaves[k][1]), leaves[k][2]>> :
                k \in DOMAIN leaves}

\* run() returned after first-hop frames were made from a precondition edge with
\* two leaves and from a postcondition edge
C20_Witness ==
  /\ Returned
  /\ \E m, n \in FirstHops :
       /\ made[m].origin.kind = PRECONDITION
       /\ Len(CallInfoOf(made[m].origin).leaves) = 2
       /\ Cardinality(FrameLeaves(made[m].frame)) = 2
       /\ made[n].origin.kind = POSTCONDITION
       /\ FrameLeaves(made[n].frame) # {}

(***************************************************************************)
(* C21: callable_count is computed over the whole input before any issue   *)
(* is processed: in every state the k-th IssueInstance is the one of the   *)
(* k-th raw issue record and its callable_count is the number of raw issue *)
(* records of the input with the same callable, the records not yet        *)
(* processed included.                                                     *)
(***************************************************************************)
C21_CallableCountOfInput ==
  \A k \in DOMAIN graph.issue_instances :
    /\ k \in DOMAIN Issues
    /\ get_text(graph, graph.issue_instances[k].callable_id) = Prefix(Issues[k].callable)
    /\ graph.issue_instances[k].callable_count =
         Cardinality({j \in DOMAIN Issues : Issues[j].callable = Issues[k].callable})

\* the instance of the first record is in the graph with callable_count 2 while
\* the second record, of the same callable, has not been processed
C21_Witness ==
  /\ pc = "issues" /\ idx = 2 /\ stack = <<>>
  /\ Len(Issues) = 2 /\ Issues[1].callable = Issues[2].callable
  /\ Len(graph.issue_instances) = 1
  /\ graph.issue_instances[1].callable_count = 2

\* the depths of the universes' leaves are at most MaxDepth
MaxDepth == 5
\* the leaf depths an issue reports on its own edges
EdgeDepths(edges) ==
  {d \in 0..MaxDepth : \E i \in DOMAIN edges : \E j \in DOMAIN edges[i].leaves :
                         edges[i].leaves[j][2] = d}
\* v is the least of the depths, 0 when there is none
IsShortest(v, depths) ==
  IF depths = {} THEN v = 0 ELSE v \in depths /\ \A d \in depths : v <= d

(***************************************************************************)
(* C22: min_trace_length_to_sinks (to_sources) of an IssueInstance is the  *)
(* least leaf depth over the precondition (postcondition) edges the issue  *)
(* reports itself, 0 when it reports no such edge or leaf; the frames the  *)
(* transitive expansion materializes, whatever their depths, do not change *)
(* it.                                                                     *)
(***************************************************************************)
C22_MinTraceLengthDirect ==
  \A k \in DOMAIN graph.issue_instances :
    /\ IsShortest(graph.issue_instances[k].min_trace_length_to_sinks,
                  EdgeDepths(Issues[k].preconditions))
    /\ IsShortest(graph.issue_instances[k].min_trace_length_to_sources,
                  EdgeDepths(Issues[k].postconditions))

\* run() returned with an instance whose min_trace_length_to_sinks is above the
\* depth of a leaf of a frame the expansion of that issue materialized from the
\* pool, and whose min_trace_length_to_sources is 0 for want of an edge
C22_Witness ==
  /\ Returned
  /\ \E k \in DOMAIN graph.issue_instances : \E m \in PoolMade :
       /\ made[m].issue = k
       /\ FragU[made[m].origin.fragment].kind = PRECONDITION
       /\ \E a \in BagToSet(graph.trace_frame_leaf_assoc) :
            /\ a[1] = made[m].frame
            /\ a[3] < graph.issue_instances[k].min_trace_length_to_sinks
       /\ Issues[k].postconditions = <<>>
       /\ graph.issue_instances[k].min_trace_length_to_sources = 0

(***************************************************************************)
(* C23: the builder creates the Run once and never marks it FINISHED: in   *)
(* every state of run(), the returned summary included, the status of      *)
(* summary["run"] is INCOMPLETE, and every Issue, IssueInstance and        *)
(* TraceFrame of the graph names that one run.                             *)
(***************************************************************************)
C23_RunIncomplete ==
  /\ run.status = "INCOMPLETE"
  /\ \A i \in Range(graph.issues) : i.run_id = run.id
  /\ \A i \in Range(graph.issue_instances) : i.run_id = run.id
  /\ \A F \in Frames : F.run_id = run.id

\* run() returned a graph with an instance and frames made from the pool
C23_Witness ==
  /\ Returned /\ run.status = "INCOMPLETE"
  /\ graph.issue_instances # <<>>
  /\ PoolMade # {}

\* the worklist of a transitive expansion has an item to take
TakesItem == stack # <<>> /\ Top.op = "transitive" /\ Top.queue # <<>>

(***************************************************************************)
(* C24: visited_frames only grows, and a frame's callee is looked up only  *)
(* with new leaves.  When the item (F, L) taken from the worklist has      *)
(* leaves not yet recorded for F, the lookup goes on with L minus what     *)
(* visited_frames[F] held, a non-empty set disjoint from it, and           *)
(* visited_frames[F] becomes the union; when L is empty or all recorded    *)
(* for F the step takes the item off the worklist and changes nothing      *)
(* else: no lookup, no pop, no new frame.                                  *)
(***************************************************************************)
C24_LookupOnlyWithNewLeaves ==
  [][/\ \A f \in DOMAIN visited_frames :
          f \in DOMAIN visited_frames' /\ visited_frames[f] \subseteq visited_frames'[f]
     /\ TakesItem =>
          LET F == Item[1]
              L == Item[2]
              before == Visited(F)
          IN  IF L \ before = {}
              THEN /\ UNCHANGED <<visited_frames, graph, trace_entries, missing_traces,
                                  big_tito, next_id, made, pop_log, lookup_log>>
                   /\ stack' = [stack EXCEPT ![Len(stack)].queue = Front(@)]
              ELSE /\ visited_frames' =
                        [f \in DOMAIN visited_frames \cup {F} |->
                           IF f = F THEN before \cup L ELSE visited_frames[f]]
                   /\ \E r \in lookup_log' \ lookup_log :
                        /\ r.frame = F /\ r.leaves = L \ before
                        /\ r.leaves # {} /\ r.leaves \cap before = {}]_vars

\* a frame was looked up twice, with different leaves, and the item to take
\* next has leaves that are all recorded for its frame
C24_Witness ==
  /\ TakesItem
  /\ Item[2] # {} /\ Item[2] \subseteq Visited(Item[1])
  /\ \E r, q \in lookup_log : r.frame = q.frame /\ r.leaves # q.leaves

\* the frames of the graph filed under the callee of frame F
NextOf(F) == {G \in Frames : Follows(F, G)}

(***************************************************************************)
(* C25: when the graph already holds frames of the requested kind under    *)
(* the callee and callee port of the frame being expanded, the lookup      *)
(* returns exactly those frames with their stored leaf ids and changes     *)
(* nothing: no frame is created, nothing is popped from the pool, nothing  *)
(* is added to missing_traces.  The worklist receives each of those frames *)
(* once, with the leaves it shares with the item.                          *)
(***************************************************************************)
C25_GraphHitChangesNothing ==
  [][(/\ TakesItem
      /\ Item[2] \ Visited(Item[1]) # {}
      /\ NextOf(FrameOf(graph, Item[1])) # {})
     => /\ UNCHANGED <<graph, trace_entries, missing_traces, big_tito, next_id, made,
                       pop_log>>
        /\ Len(stack') = Len(stack)
        /\ LET queue == stack'[Len(stack)].queue
               added == SubSeq(queue, Len(Top.queue), Len(queue))
               leaves == Item[2] \ Visited(Item[1])
           IN  /\ SubSeq(queue, 1, Len(Top.queue) - 1) = Front(Top.queue)
               /\ {added[i][1] : i \in DOMAIN added} =
                    {G.id : G \in NextOf(FrameOf(graph, Item[1]))}
               /\ Len(added) = Cardinality(NextOf(FrameOf(graph, Item[1])))
               /\ \A i \in DOMAIN added :
                    added[i][2] = leaves \cap LeafIds(added[i][1])]_vars

\* a lookup found in the graph the two frames materialized from the pool under
\* its key, after another key was recorded as missing
C25_Witness ==
  /\ \E r \in lookup_log : \E p \in pop_log :
       /\ r.from = "graph" /\ r.found = 2
       /\ p.kind = r.kind /\ p.key = r.key /\ Len(p.entries) = 2
  /\ \E kind \in TraceKind : missing_traces[kind] # {}

\* s is the beginning of t
IsPrefix(s, t) == Len(s) <= Len(t) /\ SubSeq(t, 1, Len(s)) = s
\* the frames looked up by this step
LookedUp == {r.frame : r \in lookup_log' \ lookup_log}

(***************************************************************************)
(* C26 as stated: the worklist of a transitive expansion is processed      *)
(* first-in first-out: the item taken is the one pushed first, the items   *)
(* pushed after it stay behind in their order.                             *)
(***************************************************************************)
C26_WorklistFIFO ==
  [][TakesItem =>
       /\ LookedUp \subseteq {Top.queue[1][1]}
       /\ IsPrefix(Tail(Top.queue), stack'[Len(stack)].queue)]_vars

(***************************************************************************)
(* C26, amended: the worklist of a transitive expansion is processed       *)
(* last-in first-out, depth-first: the item taken is the one pushed last,  *)
(* the items pushed before it stay in their order, and the frames a lookup *)
(* returns are pushed at the end, so they are expanded before the items    *)
(* that were waiting.                                                      *)
(***************************************************************************)
C26_WorklistLIFO ==
  [][/\ TakesItem =>
          /\ LookedUp \subseteq {Top.queue[Len(Top.queue)][1]}
          /\ IsPrefix(Front(Top.queue), stack'[Len(stack)].queue)
     /\ \A i \in DOMAIN stack \cap DOMAIN stack' :
          (/\ stack[i].op = "transitive" /\ stack'[i].op = "transitive"
           /\ stack[i].start = stack'[i].start
           /\ ~(i = Len(stack) /\ TakesItem))
          => IsPrefix(stack[i].queue, stack'[i].queue)]_vars

\* an item is taken from a worklist of two, and the frame it holds was pushed
\* after the other: its id is the higher one
C26_Witness ==
  /\ TakesItem /\ Len(Top.queue) = 2
  /\ Top.queue[2][1] > Top.queue[1][1]
  /\ ~SkipsItem(Top.queue[1][1], Top.queue[1][2])
  /\ ~SkipsItem(Top.queue[2][1], Top.queue[2][2])

\* the raw annotations of the record a frame was built from
RawAnnotationsOf(o) ==
  IF o.src = "issue" THEN Get(CallInfoOf(o), "annotations", <<>>)
  ELSE IF o.src = "pool" THEN Get(FragU[o.fragment], "annotations", <<>>)
  ELSE <<>>
\* the TraceFrameAnnotation records of a frame, in the order they were added
AnnotationsOf(frame_id) ==
  SelectSeq(graph.trace_annotations, LAMBDA a : a.trace_frame_id = frame_id)
\* the first-hop frames made for the preconditions nested in an annotation record
NestedOf(record) ==
  {m \in DOMAIN made : made[m].origin.src = "annotation" /\ made[m].origin.record = record}

(***************************************************************************)
(* C27: every annotation of a materialized frame gets one record, and each *)
(* precondition nested in it one first-hop frame: kind PRECONDITION,       *)
(* caller and filename of the parent frame, caller_port "root", no TITO    *)
(* positions, no annotations of its own and the single leaf (leaf_kind,    *)
(* leaf_depth) as a SINK.  Once the issue is processed the frame is        *)
(* associated with the annotation and was expanded.  An annotation without *)
(* preconditions has no frame.                                             *)
(***************************************************************************)
C27_AnnotationPreconditions ==
  /\ \A m \in {n \in DOMAIN made : made[n].origin.src = "annotation"} :
       LET F == FrameOf(graph, made[m].frame)
           annotation == made[m].origin.annotation
           record == CHOOSE a \in Range(graph.trace_annotations) :
                       a.id = made[m].origin.record
           parent == FrameOf(graph, record.trace_frame_id)
       IN  /\ F.kind = PRECONDITION /\ F.caller_port = PortRoot
           /\ F.caller_id = parent.caller_id /\ F.filename_id = parent.filename_id
           /\ get_text(graph, F.callee_id) =
                Prefix(annotation.preconditions[made[m].origin.pos].callee)
           /\ F.callee_port = annotation.preconditions[made[m].origin.pos].port
           /\ F.titos = <<>>
           /\ AnnotationsOf(F.id) = <<>>
           /\ FrameLeaves(F.id) =
                {<<"SINK", Prefix(annotation.leaf_kind), annotation.leaf_depth>>}
           /\ stack = <<>> =>
                /\ <<record.id, F.id>>
                     \in BagToSet(graph.trace_frame_annotation_trace_frame_assoc)
                /\ Visited(F.id) = LeafIds(F.id)
  /\ stack = <<>> =>
       \A P \in Frames :
         LET raw == RawAnnotationsOf(Origin(P.id))
             records == AnnotationsOf(P.id)
         IN  /\ Len(records) = Len(raw)
             /\ \A j \in DOMAIN raw :
                  /\ Cardinality(NestedOf(records[j].id)) =
                       Len(Get(raw[j], "preconditions", <<>>))
                  /\ \A m, n \in NestedOf(records[j].id) :
                       made[m].origin.pos = made[n].origin.pos => m = n

\* run() returned a graph with an annotation that has a nested first-hop frame
\* and an annotation that has none
C27_Witness ==
  /\ Returned
  /\ \E a, b \in Range(graph.trace_annotations) :
       NestedOf(a.id) # {} /\ NestedOf(b.id) = {}

\* how often a pair (a, b) was passed to the add operation that filled the bag;
\* the entries of the bag start with the pair
TimesAdded(bag, a, b) ==
  LET hits == {e \in BagToSet(bag) : e[1] = a /\ e[2] = b}
      RECURSIVE Sum(_)
      Sum(S) == IF S = {} THEN 0
                ELSE LET e == CHOOSE x \in S : TRUE
                     IN  CopiesIn(e, bag) + Sum(S \ {e})
  IN  Sum(hits)

(***************************************************************************)
(* C28: the builder never adds the same association pair twice within a    *)
(* run: no (frame, leaf) pair, no (issue instance, shared text) pair and   *)
(* no (issue instance, trace frame) pair is passed to an add_*_assoc       *)
(* operation more than once, whatever the input, a leaf list that names    *)
(* one leaf at two depths included.                                        *)
(***************************************************************************)
C28_NoPairAddedTwice ==
  /\ \A e \in BagToSet(graph.trace_frame_leaf_assoc) :
       TimesAdded(graph.trace_frame_leaf_assoc, e[1], e[2]) = 1
  /\ \A e \in BagToSet(graph.issue_instance_shared_text_assoc) :
       TimesAdded(graph.issue_instance_shared_text_assoc, e[1], e[2]) = 1
  /\ \A e \in BagToSet(graph.issue_instance_trace_frame_assoc) :
       TimesAdded(graph.issue_instance_trace_frame_assoc, e[1], e[2]) = 1

\* what the code keeps: the pairs of an instance are added once each, and a
\* (frame, leaf) pair is added once per entry of the raw leaf list naming it
C28_PairsOfInstancesOnce ==
  /\ \A e \in BagToSet(graph.issue_instance_shared_text_assoc) :
       TimesAdded(graph.issue_instance_shared_text_assoc, e[1], e[2]) = 1
  /\ \A e \in BagToSet(graph.issue_instance_trace_frame_assoc) :
       TimesAdded(graph.issue_instance_trace_frame_assoc, e[1], e[2]) = 1
  /\ \A F \in Frames : \A e \in BagToSet(graph.trace_frame_leaf_assoc) :
       e[1] = F.id =>
         TimesAdded(graph.trace_frame_leaf_assoc, e[1], e[2]) =
           Cardinality({i \in DOMAIN RawLeavesOf(Origin(F.id), F.kind) :
                          LeafTextId(F.kind, RawLeavesOf(Origin(F.id), F.kind)[i][1])
                            = Some(e[2])})

\* run() returned a graph in which the frame of a fragment that names one leaf
\* at two depths has two associations with that leaf, and an instance has
\* shared texts and frames
C28_Witness ==
  /\ Returned
  /\ \E e \in BagToSet(graph.trace_frame_leaf_assoc) :
       TimesAdded(graph.trace_frame_leaf_assoc, e[1], e[2]) = 2
  /\ BagToSet(graph.issue_instance_shared_text_assoc) # {}
  /\ BagToSet(graph.issue_instance_trace_frame_assoc) # {}

\* the ids of the entities of a collection, in insertion order
IdsOf(entities) == [i \in DOMAIN entities |-> entities[i].id]

\* the ids of the issues, issue instances, trace frames and trace annotations
\* of a graph, one per add call
EntityIds(g) ==
  IdsOf(g.issues) \o IdsOf(g.issue_instances) \o IdsOf(g.trace_frames)
    \o IdsOf(g.trace_annotations)

\* the entities a step added to a collection
Added(before, after) == SubSeq(after, Len(before) + 1, Len(after))

\* the ids of the entities a step added to the graph
AddedIds ==
  IdsOf(Added(graph.issues, graph'.issues))
    \o IdsOf(Added(graph.issue_instances, graph'.issue_instances))
    \o IdsOf(Added(graph.trace_frames, graph'.trace_frames))
    \o IdsOf(Added(graph.trace_annotations, graph'.trace_annotations))

(***************************************************************************)
(* C29: the builder only inserts, and never an id twice: every step keeps  *)
(* the issues, issue instances, trace frames, trace annotations, shared    *)
(* texts and associations the graph holds; each entity it adds carries an  *)
(* id generated in this step, absent from the graph and from the other     *)
(* entities added; and the graph holds exactly one issue instance per raw  *)
(* issue record processed, added when _generate_issue ends.                *)
(***************************************************************************)
C29_InsertOnlyFreshIds ==
  [][/\ IsPrefix(graph.issues, graph'.issues)
     /\ IsPrefix(graph.issue_instances, graph'.issue_instances)
     /\ IsPrefix(graph.trace_frames, graph'.trace_frames)
     /\ IsPrefix(graph.trace_annotations, graph'.trace_annotations)
     /\ IsPrefix(graph.shared_texts, graph'.shared_texts)
     /\ IsPrefix(graph.fix_infos, graph'.fix_infos)
     /\ graph.trace_frame_leaf_assoc \sqsubseteq graph'.trace_frame_leaf_assoc
     /\ graph.issue_instance_shared_text_assoc
          \sqsubseteq graph'.issue_instance_shared_text_assoc
     /\ graph.issue_instance_trace_frame_assoc
          \sqsubseteq graph'.issue_instance_trace_frame_assoc
     /\ graph.trace_frame_annotation_trace_frame_assoc
          \sqsubseteq graph'.trace_frame_annotation_trace_frame_assoc
     /\ \A i \in DOMAIN AddedIds :
          /\ AddedIds[i] \in next_id .. (next_id' - 1)
          /\ AddedIds[i] \notin Range(EntityIds(graph))
          /\ \A j \in DOMAIN AddedIds : AddedIds[i] = AddedIds[j] => i = j
     /\ Len(graph'.issue_instances) = idx' - 1
     /\ Len(graph'.issues) = idx' - 1
     /\ \A i \in DOMAIN graph'.issue_instances :
          /\ graph'.issue_instances[i].issue_id = graph'.issues[i].id
          /\ get_text(graph', graph'.issue_instances[i].callable_id) = Issues[i].callable
    ]_vars

\* run() returned a graph with two issue instances, two issues, frames and an
\* annotation, all of different ids
C29_Witness ==
  /\ Returned
  /\ Len(graph.issue_instances) = 2 /\ Len(Issues) = 2
  /\ Len(graph.trace_frames) >= 2
  /\ graph.trace_annotations # <<>>
  /\ Cardinality(Range(EntityIds(graph))) = Len(EntityIds(graph))

\* the store holds a shared text of this id and kind
RefersTo(id, kind) == \E t \in Range(graph.shared_texts) : t.id = id /\ t.kind = kind

(***************************************************************************)
(* C30: referential integrity of frames.  In every reachable state each    *)
(* trace frame of the graph has a caller_id and a callee_id that refer to  *)
(* shared texts of kind CALLABLE and a filename_id that refers to a shared *)
(* text of kind FILENAME, all in the store; and each leaf association of   *)
(* a frame refers to a shared text of kind SOURCE when the frame is a      *)
(* postcondition and of kind SINK when it is a precondition.               *)
(***************************************************************************)
C30_FrameReferences ==
  /\ \A F \in Frames :
       /\ RefersTo(F.caller_id, "CALLABLE")
       /\ RefersTo(F.callee_id, "CALLABLE")
       /\ RefersTo(F.filename_id, "FILENAME")
  /\ \A a \in BagToSet(graph.trace_frame_leaf_assoc) :
       \E F \in Frames :
         /\ F.id = a[1]
         /\ F.kind \in {POSTCONDITION, PRECONDITION}
         /\ F.kind = POSTCONDITION => RefersTo(a[2], "SOURCE")
         /\ F.kind = PRECONDITION => RefersTo(a[2], "SINK")

\* run() returned a graph with a postcondition frame and a precondition frame
\* whose leaves have the same name, interned once as SOURCE and once as SINK
C30_Witness ==
  /\ Returned
  /\ \E a, b \in BagToSet(graph.trace_frame_leaf_assoc) :
       /\ \E F \in Frames : F.id = a[1] /\ F.kind = POSTCONDITION
       /\ \E F \in Frames : F.id = b[1] /\ F.kind = PRECONDITION
       /\ a[2] # b[2]
       /\ get_text(graph, a[2]) = get_text(graph, b[2])

\* the bag of the associations (frame, leaf text, depth) of one frame
AssocOfFrame(frame_id) ==
  [a \in {b \in BagToSet(graph.trace_frame_leaf_assoc) : b[1] = frame_id}
     |-> CopiesIn(a, graph.trace_frame_leaf_assoc)]

\* the id of the text of this kind and name in the store; 0, which is no id,
\* when the store has none
StoredTextId(text_kind, name) ==
  LET found == get_shared_text(graph, text_kind, Prefix(name))
  IN  IF found = None THEN 0 ELSE found[1]

\* the bag with one association (frame, text of the leaf, depth) per entry of a
\* leaf list, the texts being those of the given kind in the store
RECURSIVE AssocFor(_, _, _)
AssocFor(frame_id, text_kind, leaves) ==
  IF leaves = <<>>
  THEN EmptyBag
  ELSE SetToBag({<<frame_id, StoredTextId(text_kind, Head(leaves)[1]),
                   Head(leaves)[2]>>})
         (+) AssocFor(frame_id, text_kind, Tail(leaves))

\* the frame made from a fragment of a pool
FrameOfFragment(m) == FrameOf(graph, made[m].frame)

(***************************************************************************)
(* C31: the frame materialized from a pool fragment without a "leaves"     *)
(* field, or with an empty one, takes its leaves from the fragment's       *)
(* "sources" when its kind is POSTCONDITION and from its "sinks" when it   *)
(* is PRECONDITION; a non-empty "leaves" is used as is; and each leaf      *)
(* (name, depth) inserts one association (frame, leaf text, depth).        *)
(***************************************************************************)
C31_LeavesDefaultToSourcesOrSinks ==
  \A m \in PoolMade :
    LET entry == FragU[made[m].origin.fragment]
        F     == FrameOfFragment(m)
    IN  /\ ("leaves" \in DOMAIN entry /\ entry.leaves # <<>>)
             => AssocOfFrame(F.id) = AssocFor(F.id, LeafKind(F.kind), entry.leaves)
        /\ ("leaves" \notin DOMAIN entry \/ entry.leaves = <<>>)
             => /\ F.kind = POSTCONDITION
                     => AssocOfFrame(F.id) = AssocFor(F.id, "SOURCE", entry.sources)
                /\ F.kind = PRECONDITION
                     => AssocOfFrame(F.id) = AssocFor(F.id, "SINK", entry.sinks)

\* run() returned after it materialized a fragment that has leaves and a
\* postcondition fragment without the field, whose frame carries its sources
C31_Witness ==
  /\ Returned
  /\ \E m, n \in PoolMade :
       /\ "leaves" \in DOMAIN FragU[made[m].origin.fragment]
       /\ FragU[made[m].origin.fragment].leaves # <<>>
       /\ "leaves" \notin DOMAIN FragU[made[n].origin.fragment]
       /\ FrameOfFragment(n).kind = POSTCONDITION
       /\ FragU[made[n].origin.fragment].sources # <<>>
       /\ AssocOfFrame(FrameOfFragment(n).id) # EmptyBag

\* the contents of the shared texts of a kind associated with an issue instance
TextsOfInstance(instance_id, kind) ==
  {t.contents : t \in {u \in Range(graph.shared_texts) :
                         /\ u.kind = kind
                         /\ <<instance_id, u.id>>
                              \in BagToSet(graph.issue_instance_shared_text_assoc)}}

\* the feature texts of a raw issue: "key:value" for a value that is a non-empty
\* string, "key" for any other value
FeatureTexts(entry) ==
  UNION {{Prefix(IF /\ "str" \in DOMAIN entry.features[i][key]
                    /\ entry.features[i][key].str # <<>>
                 THEN key \o <<":">> \o entry.features[i][key].str
                 ELSE key) : key \in DOMAIN entry.features[i]} :
           i \in DOMAIN entry.features}

(***************************************************************************)
(* C32: each issue instance is associated with the SINK text of every kind *)
(* in final_sinks, the SOURCE text of every kind in initial_sources, the   *)
(* SINK_DETAIL and SOURCE_DETAIL text of every non-empty name in them (an  *)
(* empty name makes no detail), and the FEATURE text of every feature,     *)
(* "key:value" when the value is a non-empty string and "key" otherwise;   *)
(* with nothing else; and it has a fix-info record exactly when the raw    *)
(* issue has a fix_info.                                                   *)
(***************************************************************************)
C32_InstanceAssociations ==
  \A i \in DOMAIN graph.issue_instances :
    LET entry == Issues[i]
        id    == graph.issue_instances[i].id
    IN  /\ TextsOfInstance(id, "SINK")
             = {Prefix(entry.final_sinks[k][2]) : k \in DOMAIN entry.final_sinks}
        /\ TextsOfInstance(id, "SOURCE")
             = {Prefix(entry.initial_sources[k][2]) : k \in DOMAIN entry.initial_sources}
        /\ TextsOfInstance(id, "SINK_DETAIL")
             = {Prefix(entry.final_sinks[k][1]) : k \in DOMAIN entry.final_sinks} \ {<<>>}
        /\ TextsOfInstance(id, "SOURCE_DETAIL")
             = {Prefix(entry.initial_sources[k][1]) : k \in DOMAIN entry.initial_sources}
                 \ {<<>>}
        /\ TextsOfInstance(id, "FEATURE") = FeatureTexts(entry)
        /\ \A a \in BagToSet(graph.issue_instance_shared_text_assoc) :
             a[1] = id =>
               /\ CopiesIn(a, graph.issue_instance_shared_text_assoc) = 1
               /\ \E t \in Range(graph.shared_texts) :
                    /\ t.id = a[2]
                    /\ t.kind \in {"SINK", "SOURCE", "SINK_DETAIL", "SOURCE_DETAIL",
                                   "FEATURE"}
        /\ Cardinality({k \in DOMAIN graph.fix_infos : graph.fix_infos[k][1] = id})
             = (IF "fix_info" \in DOMAIN entry THEN 1 ELSE 0)
        /\ (graph.issue_instances[i].fix_info_id # None) <=> ("fix_info" \in DOMAIN entry)

\* run() returned the instance of an issue with a fix_info, a feature of a
\* string value, a feature of another value, a sink with a name and a source
\* without one, and the instance of an issue without fix_info
C32_Witness ==
  /\ Returned
  /\ \E i, j \in DOMAIN graph.issue_instances :
       /\ graph.issue_instances[i].fix_info_id # None
       /\ graph.issue_instances[j].fix_info_id = None
       /\ Cardinality(TextsOfInstance(graph.issue_instances[i].id, "FEATURE")) >= 2
       /\ \E f \in TextsOfInstance(graph.issue_instances[i].id, "FEATURE") :
            \E k \in DOMAIN f : f[k] = ":"
       /\ TextsOfInstance(graph.issue_instances[i].id, "SINK_DETAIL") # {}
       /\ TextsOfInstance(graph.issue_instances[i].id, "SOURCE") # {}
       /\ TextsOfInstance(graph.issue_instances[i].id, "SOURCE_DETAIL") = {}

\* the leaf texts a frame carries: those of its associations
Carries(frame_id) ==
  {a[2] : a \in {b \in BagToSet(graph.trace_frame_leaf_assoc) : b[1] = frame_id}}

\* the items (frame, leaves) waiting in the worklists of the expansions under way
QueuedItems ==
  UNION {Range(stack[i].queue) : i \in {j \in DOMAIN stack : stack[j].op = "transitive"}}

(***************************************************************************)
(* C33: in every reachable state visited_frames[F] is a subset of the leaf *)
(* ids associated with F, for every frame F that has an entry; and a leaf  *)
(* that a frame does not carry is never propagated through it: no item of  *)
(* a worklist pairs a frame with a leaf it does not carry, and no lookup   *)
(* is made for the callee of a frame on behalf of such a leaf.             *)
(***************************************************************************)
C33_VisitedWithinCarried ==
  /\ \A f \in DOMAIN visited_frames :
       /\ \E F \in Frames : F.id = f
       /\ visited_frames[f] \subseteq Carries(f)
  /\ \A item \in QueuedItems : item[2] \subseteq Carries(item[1])
  /\ \A r \in lookup_log : r.leaves \subseteq Carries(r.frame)

\* run() returned; a frame that carries S1 and S2 was reached from a frame that
\* carries S1 only, and was expanded with S1 alone
C33_Witness ==
  /\ Returned
  /\ \E F, G \in Frames :
       /\ Follows(F, G)
       /\ G.id \in DOMAIN visited_frames /\ F.id \in DOMAIN visited_frames
       /\ visited_frames[G.id] # {}
       /\ visited_frames[G.id] # Carries(G.id)
       /\ Carries(G.id) \ Carries(F.id) # {}

\* fragment i of the pools was materialized as one trace frame of this kind with
\* one leaf association per entry of its leaves and one record per annotation
Materialized(i, kind) ==
  \E m \in PoolMade :
    /\ made[m].origin.fragment = i
    /\ \A n \in PoolMade : made[n].origin.fragment = i => n = m
    /\ FrameOfFragment(m).kind = kind
    /\ BagCardinality(AssocOfFrame(made[m].frame))
         = Len(IF Get(FragU[i], "leaves", <<>>) # <<>> THEN FragU[i].leaves
               ELSE IF kind = POSTCONDITION THEN FragU[i].sources ELSE FragU[i].sinks)
    /\ Len(AnnotationsOf(made[m].frame)) = Len(Get(FragU[i], "annotations", <<>>))

(***************************************************************************)
(* C34: when expansion reaches a key, all fragments filed under that key   *)
(* are popped and materialized as trace frames, with their leaf            *)
(* associations and annotations, whether or not their leaves intersect the *)
(* leaves being propagated: once the issue is processed, every fragment    *)
(* the pool filed under the key of a lookup has its frame.                 *)
(***************************************************************************)
C34_ReachedKeyMaterialized ==
  stack = <<>> =>
    \A r \in lookup_log : \A i \in FiledUnder(r.kind, r.key) : Materialized(i, r.kind)

\* what holds of every pop: the first pop of a key takes all fragments filed
\* under it, and once the issue is processed each of them has its frame,
\* whatever leaves the lookup propagated
C34_PoppedKeyMaterialized ==
  /\ \A p \in pop_log :
       /\ p.first => Range(p.entries) = FiledUnder(p.kind, p.key)
       /\ \A i \in Range(p.entries) :
            i \in Waiting(stack) \/ \E m \in PoolMade : made[m].origin.fragment = i
  /\ stack = <<>> =>
       \A p \in pop_log : \A i \in Range(p.entries) : Materialized(i, p.kind)

\* run() returned; a lookup popped two fragments of one key, both have frames,
\* and one of them carries no leaf the lookup propagated and was not expanded
C34_PoppedWitness ==
  /\ Returned
  /\ \E p \in pop_log : \E r \in lookup_log :
       /\ r.from = "pool" /\ r.kind = p.kind /\ r.key = p.key
       /\ Len(p.entries) >= 2
       /\ \A i \in Range(p.entries) : Materialized(i, p.kind)
       /\ \E m \in PoolMade :
            /\ made[m].origin.fragment \in Range(p.entries)
            /\ Carries(made[m].frame) \cap r.leaves = {}
            /\ made[m].frame \notin DOMAIN visited_frames

\* run() returned; a lookup reached a key under which the pool files a fragment,
\* found first-hop frames of an issue in the graph, and the fragment is still in
\* the pool without a frame
C34_Witness ==
  /\ Returned
  /\ \E r \in lookup_log : \E i \in FiledUnder(r.kind, r.key) :
       /\ r.from = "graph" /\ r.key[2] = PortRoot
       /\ i \in Pooled
       /\ ~\E m \in PoolMade : made[m].origin.fragment = i

\* the raw callee name of the record a frame was built from
RawCalleeOf(o) ==
  IF o.src = "issue" THEN CallInfoOf(o).callee
  ELSE IF o.src = "annotation" THEN o.annotation.preconditions[o.pos].callee
  ELSE FragU[o.fragment].callee

\* the fragments the pool files under the raw callee and the callee port of a frame
FiledUnderCallee(F) ==
  {i \in pool_sel : /\ FragU[i].kind = F.kind
                    /\ FragU[i].caller = RawCalleeOf(Origin(F.id))
                    /\ FragU[i].caller_port = F.callee_port}

(***************************************************************************)
(* C35: the pool lookup finds every fragment filed under the callee of an  *)
(* expanded frame: for every pool key (caller, port) and every expanded    *)
(* frame whose raw callee name is caller and whose callee_port is port,    *)
(* the fragments under that key are materialized once the issue is         *)
(* processed, also when the callee name is longer than SHARED_TEXT_LENGTH. *)
(***************************************************************************)
C35_LookupFindsFiledFragments ==
  stack = <<>> =>
    \A F \in Frames :
      F.id \in DOMAIN visited_frames =>
        \A i \in FiledUnderCallee(F) : \E m \in PoolMade : made[m].origin.fragment = i

\* run() returned; a frame whose callee name is longer than SHARED_TEXT_LENGTH
\* was expanded, the lookup used the truncated name, found nothing and recorded
\* it as missing, and the fragment filed under the callee is still in the pool
C35_Witness ==
  /\ Returned
  /\ \E F \in Frames : \E i \in FiledUnderCallee(F) :
       /\ F.id \in DOMAIN visited_frames
       /\ Len(RawCalleeOf(Origin(F.id))) > SHARED_TEXT_LENGTH
       /\ i \in Pooled
       /\ <<Prefix(RawCalleeOf(Origin(F.id))), F.callee_port>> \in missing_traces[F.kind]
       /\ \E r \in lookup_log : r.frame = F.id /\ r.from = "pool" /\ r.found = 0

\* the graph holds a trace frame of this kind filed under (caller text, port)
HasFrameUnder(kind, key) ==
  \E F \in Frames :
    F.kind = kind /\ get_text(graph, F.caller_id) = key[1] /\ F.caller_port = key[2]

(***************************************************************************)
(* C36: when run returns, every entry (caller, port) of                    *)
(* missing_traces[kind] is really missing: the graph holds no trace frame  *)
(* of that kind whose caller text is caller and whose caller_port is port, *)
(* first-hop frames (caller_port "root") of issues or annotations          *)
(* processed after the entry was recorded included.                        *)
(***************************************************************************)
C36_MissingReallyMissing ==
  Returned =>
    \A kind \in TraceKind : \A key \in missing_traces[kind] : ~HasFrameUnder(kind, key)

\* what holds: an entry whose port is not "root" has no frame in any state
C36_MissingBesidesRoot ==
  \A kind \in TraceKind : \A key \in missing_traces[kind] :
    key[2] # PortRoot => ~HasFrameUnder(kind, key)

\* run() returned with an entry (caller, "root") in missing_traces and the
\* first-hop frame of a later issue of that caller in the graph
C36_Witness ==
  /\ Returned
  /\ \E kind \in TraceKind : \E key \in missing_traces[kind] :
       /\ key[2] = PortRoot
       /\ \E m \in DOMAIN made :
            /\ made[m].origin.src = "issue"
            /\ FrameOf(graph, made[m].frame).kind = kind
            /\ get_text(graph, FrameOf(graph, made[m].frame).caller_id) = key[1]
            /\ \E r \in lookup_log :
                 r.kind = kind /\ r.key = key /\ r.found = 0 /\ r.frame < made[m].frame

(***************************************************************************)
(* C37: when the summary flag store_unused_models is set, run completes    *)
(* without error and every fragment still left in the precondition and     *)
(* postcondition pools after all issues are processed is materialized as   *)
(* exactly one trace frame.                                                *)
(***************************************************************************)
C37_UnusedModelsStored ==
  (RunEnded /\ store_unused_models = Some(TRUE)) =>
    /\ Returned
    /\ \A i \in pool_sel :
         Cardinality({m \in PoolMade : made[m].origin.fragment = i}) = 1

\* what holds: with the flag set run returns only when no fragment is left in
\* the pools, and otherwise raises with the fragments left as they were
C37_UnusedModelsRaise ==
  (RunEnded /\ store_unused_models = Some(TRUE)) =>
    /\ Returned <=> Pooled = {}
    /\ pc = "raised" <=> Pooled # {}
    /\ \A i \in Pooled : ~\E m \in PoolMade : made[m].origin.fragment = i
    /\ trace_entries = [k \in TraceKind |->
                          [key \in DOMAIN trace_entries[k] |-> PoolOf(pool_sel, k)[key]]]

\* run() processed an issue, read store_unused_models as set with a fragment the
\* expansion did not reach left in a pool, and raised: the fragment has no frame
C37_Witness ==
  /\ pc = "raised" /\ store_unused_models = Some(TRUE)
  /\ Len(graph.issue_instances) = Len(Issues) /\ Issues # <<>>
  /\ PoolMade # {}
  /\ \E i \in Pooled : ~\E m \in PoolMade : made[m].origin.fragment = i

\* the other trace kind
OtherKind(kind) == IF kind = PRECONDITION THEN POSTCONDITION ELSE PRECONDITION

\* the frames of the worklist and the start frame of every expansion under way
\* have the kind of the expansion, and a lookup has the kind of its expansion
KindKept(stk, g) ==
  \A i \in DOMAIN stk :
    /\ stk[i].op = "transitive" =>
         /\ FrameOf(g, stk[i].start).kind = stk[i].kind
         /\ \A item \in Range(stk[i].queue) : FrameOf(g, item[1]).kind = stk[i].kind
    /\ stk[i].op = "populate" =>
         /\ stk[i - 1].op = "transitive" /\ stk[i - 1].kind = stk[i].kind
         /\ \A item \in Range(stk[i].new) : FrameOf(g, item[1]).kind = stk[i].kind
         /\ \A e \in Range(stk[i].entries) : FragU[e].kind = stk[i].kind

(***************************************************************************)
(* C38: expansion keeps the trace kind.  Every frame reached from a        *)
(* first-hop frame of kind K has kind K, and a step of an expansion of     *)
(* kind K reads and pops only the pool of kind K and writes only           *)
(* missing_traces[K]: the pool and the missing-trace set of the other kind *)
(* are unchanged by it.  The preconditions nested in an annotation are     *)
(* expansions of their own, of kind PRECONDITION.                          *)
(***************************************************************************)
C38_ExpansionKeepsKind ==
  [][/\ KindKept(stack', graph')
     /\ \A r \in lookup_log' :
          /\ FrameOf(graph', r.frame).kind = r.kind
          /\ r.frame \in DOMAIN visited_frames'
     /\ \A p \in pop_log' \ pop_log :
          \A e \in Range(p.entries) : FragU[e].kind = p.kind
     /\ (stack # <<>> /\ Top.op \in {"transitive", "populate"}) =>
          /\ trace_entries'[OtherKind(Top.kind)] = trace_entries[OtherKind(Top.kind)]
          /\ missing_traces'[OtherKind(Top.kind)] = missing_traces[OtherKind(Top.kind)]
          /\ \A r \in lookup_log' \ lookup_log : r.kind = Top.kind
          /\ \A m \in DOMAIN made' \ DOMAIN made :
               /\ made'[m].origin.src = "pool"
               /\ FrameOf(graph', made'[m].frame).kind = Top.kind
     /\ \A m \in DOMAIN made' \ DOMAIN made :
          made'[m].origin.src = "annotation" =>
            FrameOf(graph', made'[m].frame).kind = PRECONDITION
    ]_vars

\* run() returned after expansions of both kinds: each popped fragments of its
\* own pool, and the graph holds a PRECONDITION and a POSTCONDITION frame under
\* one caller and port
C38_Witness ==
  /\ Returned
  /\ \E p, q \in pop_log :
       /\ p.kind = PRECONDITION /\ p.entries # <<>>
       /\ q.kind = POSTCONDITION /\ q.entries # <<>>
  /\ \E F, G \in Frames :
       /\ F.kind = PRECONDITION /\ G.kind = POSTCONDITION
       /\ F.caller_id = G.caller_id /\ F.caller_port = G.caller_port

\* the keys of the pool of a kind that a lookup popped
PoppedKeys(kind) == {p.key : p \in {q \in pop_log : q.kind = kind}}
\* the keys of the pool of a kind that a lookup of an expansion asked for
ReachedKeys(kind) == {r.key : r \in {q \in lookup_log : q.kind = kind}}

(***************************************************************************)
(* C39: while store_unused_models is not read as set, fragments filed      *)
(* under keys that no expansion reaches stay in the pool unchanged and     *)
(* produce no trace frame; the pool is the caller's input mapping itself,  *)
(* so after run input["preconditions"] and input["postconditions"] hold    *)
(* exactly the keys that were never popped, each with its fragments.       *)
(***************************************************************************)
C39_UnreachedStayPooled ==
  \A kind \in TraceKind :
    LET input == PoolOf(pool_sel, kind)
    IN  /\ DOMAIN trace_entries[kind] = DOMAIN input \ PoppedKeys(kind)
        /\ \A key \in DOMAIN trace_entries[kind] : trace_entries[kind][key] = input[key]
        /\ \A key \in DOMAIN input \ ReachedKeys(kind) :
             /\ key \in DOMAIN trace_entries[kind]
             /\ \A i \in Range(input[key]) :
                  ~\E m \in PoolMade : made[m].origin.fragment = i

\* run() returned without store_unused_models; one key of the pool was popped
\* and its fragment has a frame, another was never reached and is still filed
C39_Witness ==
  /\ Returned /\ store_unused_models = Some(FALSE)
  /\ \E kind \in TraceKind :
       /\ PoppedKeys(kind) \cap DOMAIN PoolOf(pool_sel, kind) # {}
       /\ \E key \in DOMAIN trace_entries[kind] : key \notin ReachedKeys(kind)
  /\ PoolMade # {}

\* the raw type interval of the record a frame was built from
RawIntervalOf(o) ==
  IF o.src = "issue" THEN CallInfoOf(o).type_interval
  ELSE IF o.src = "annotation" THEN o.annotation.type_interval
  ELSE FragU[o.fragment].type_interval

(***************************************************************************)
(* C40: a type interval is parsed into (lower, upper,                      *)
(* preserves_type_context) with lower taken from "start", upper from       *)
(* "finish", each absent bound left unset, and preserves_type_context      *)
(* false when the field is absent; the values are stored on the frame      *)
(* without validation, as the raw record has them.                         *)
(***************************************************************************)
C40_TypeIntervalParsed ==
  \A m \in DOMAIN made :
    LET ti == RawIntervalOf(made[m].origin)
        F  == FrameOf(graph, made[m].frame)
    IN  /\ F.type_interval_lower = (IF "start" \in DOMAIN ti THEN <<ti.start>> ELSE <<>>)
        /\ F.type_interval_upper = (IF "finish" \in DOMAIN ti THEN <<ti.finish>> ELSE <<>>)
        /\ F.preserves_type_context =
             (IF "preserves_type_context" \in DOMAIN ti
              THEN ti.preserves_type_context ELSE FALSE)

\* run() returned frames of an interval without "start" that preserves the type
\* context, of an interval whose start is above its finish, and of no interval
C40_Witness ==
  /\ Returned
  /\ \E F, G, H \in Frames :
       /\ F.type_interval_lower = <<>> /\ F.type_interval_upper # <<>>
       /\ F.preserves_type_context
       /\ G.type_interval_lower # <<>> /\ G.type_interval_upper # <<>>
       /\ G.type_interval_lower[1] > G.type_interval_upper[1]
       /\ ~G.preserves_type_context
       /\ H.type_interval_lower = <<>> /\ H.type_interval_upper = <<>>
       /\ ~H.preserves_type_context

====
